---- MODULE Spec2Model ----
(***************************************************************************)
(* A model of the ZenBin outbound relay (POST /api/proxy): the request    *)
(* validator, the SSRF address classifier and target resolver, and the    *)
(* relay handler with its redirect loop, deadline and bounded body read.  *)
(*                                                                         *)
(* Strings the code takes apart (IP literals, hostnames) are sequences of *)
(* one-character strings; strings it only compares or concatenates        *)
(* (messages, header names, methods) are TLA+ strings.                    *)
(***************************************************************************)
EXTENDS Integers, Sequences, FiniteSets, TLC

(***************************************************************************)
(* JavaScript values and string primitives                                *)
(***************************************************************************)

\* The JavaScript number NaN. No number the model computes is negative, and
\* every use of a possibly-NaN number is an isNaN test or a range comparison,
\* which a negative value fails exactly as NaN does.
NaN == -1

Digits == {"0", "1", "2", "3", "4", "5", "6", "7", "8", "9"}

HexLower == {"a", "b", "c", "d", "e", "f"}

HexUpper == {"A", "B", "C", "D", "E", "F"}

HexDigits == Digits \cup HexLower \cup HexUpper

\* String.prototype.toLowerCase on one character.
LowerChar(c) ==
  CASE c = "A" -> "a" [] c = "B" -> "b" [] c = "C" -> "c" [] c = "D" -> "d"
    [] c = "E" -> "e" [] c = "F" -> "f" [] c = "L" -> "l" [] c = "O" -> "o"
    [] c = "H" -> "h" [] c = "S" -> "s" [] c = "T" -> "t" [] c = "X" -> "x"
    [] c = "I" -> "i"
    [] OTHER -> c

\* String.prototype.toLowerCase on a character sequence.
ToLowerCase(s) == [i \in 1..Len(s) |-> LowerChar(s[i])]

\* The value of a hexadecimal digit.
HexVal(c) ==
  CASE c = "0" -> 0 [] c = "1" -> 1 [] c = "2" -> 2 [] c = "3" -> 3
    [] c = "4" -> 4 [] c = "5" -> 5 [] c = "6" -> 6 [] c = "7" -> 7
    [] c = "8" -> 8 [] c = "9" -> 9
    [] c \in {"a", "A"} -> 10 [] c \in {"b", "B"} -> 11
    [] c \in {"c", "C"} -> 12 [] c \in {"d", "D"} -> 13
    [] c \in {"e", "E"} -> 14 [] c \in {"f", "F"} -> 15

\* String.prototype.includes for a one-character needle.
Includes(s, c) == \E i \in 1..Len(s) : s[i] = c

\* True iff the needle occurs in s at position i.
OccursAt(s, needle, i) ==
  /\ i >= 1
  /\ i + Len(needle) - 1 <= Len(s)
  /\ \A k \in 1..Len(needle) : s[i + k - 1] = needle[k]

\* String.prototype.includes for a needle of any length.
IncludesSeq(s, needle) == \E i \in 1..Len(s) : OccursAt(s, needle, i)

\* The least element of a set of positions, 0 for the empty set.
Least(hits) == IF hits = {} THEN 0 ELSE CHOOSE i \in hits : \A j \in hits : i <= j

\* The index of the first occurrence of needle in s at or after from, 0 if none.
IndexOf(s, needle, from) == Least({i \in from..Len(s) : OccursAt(s, needle, i)})

RECURSIVE SplitFrom(_, _, _)
RECURSIVE SplitAt(_, _, _, _)
\* The pieces of s from position from on, the next occurrence of sep being at
\* position at (0: none).
SplitAt(s, sep, from, at) ==
  IF at = 0
  THEN <<SubSeq(s, from, Len(s))>>
  ELSE <<SubSeq(s, from, at - 1)>> \o SplitFrom(s, sep, at + Len(sep))

\* The pieces of s from position from on, cut at every occurrence of sep.
SplitFrom(s, sep, from) == SplitAt(s, sep, from, IndexOf(s, sep, from))

\* String.prototype.split with a non-empty separator.
Split(s, sep) == SplitFrom(s, sep, 1)

RECURSIVE DecimalValue(_)
\* The value of a sequence of decimal digits.
DecimalValue(s) ==
  IF s = <<>> THEN 0
  ELSE DecimalValue(SubSeq(s, 1, Len(s) - 1)) * 10 + HexVal(s[Len(s)])

AllDigits(s) == \A i \in 1..Len(s) : s[i] \in Digits

RECURSIVE Pow10(_)
Pow10(n) == IF n = 0 THEN 1 ELSE 10 * Pow10(n - 1)

\* A value above every octet, standing for a number too large to matter.
Huge == 1000000

\* Number(s) for the strings the classifier can hand it: the empty string is 0,
\* a run of decimal digits is its value, digits 'e' digits is scientific
\* notation, anything else is NaN.
Number(s) ==
  IF s = <<>> THEN 0
  ELSE IF AllDigits(s)
    THEN (IF Len(s) > 6 THEN Huge ELSE DecimalValue(s))
  ELSE LET es == {i \in 2..(Len(s) - 1) : s[i] \in {"e", "E"}}
       IN  IF /\ Cardinality(es) = 1
              /\ \A i \in 1..Len(s) : i \in es \/ s[i] \in Digits
           THEN LET i == CHOOSE j \in es : TRUE
                    m == SubSeq(s, 1, i - 1)
                    x == SubSeq(s, i + 1, Len(s))
                IN  IF Len(m) > 6 \/ Len(x) > 6 \/ DecimalValue(x) > 6
                    THEN (IF \A k \in 1..Len(m) : m[k] = "0" THEN 0 ELSE Huge)
                    ELSE DecimalValue(m) * Pow10(DecimalValue(x))
           ELSE NaN

\* parseInt(s, 16) of a string without sign or prefix: the longest prefix of
\* hexadecimal digits, NaN if there is none.
RECURSIVE HexPrefixValue(_, _)
HexPrefixValue(s, acc) ==
  IF s = <<>> \/ s[1] \notin HexDigits THEN acc
  ELSE HexPrefixValue(Tail(s), acc * 16 + HexVal(s[1]))

ParseIntHex(s) ==
  IF s = <<>> \/ s[1] \notin HexDigits THEN NaN ELSE HexPrefixValue(s, 0)

\* String.prototype.padStart(4, '0').
PadStart4(s) ==
  IF Len(s) >= 4 THEN s ELSE [i \in 1..(4 - Len(s)) |-> "0"] \o s

\* String.prototype.slice(from, to) with 0-based, end-exclusive indices.
Slice(s, from, to) ==
  LET lo == IF from > Len(s) THEN Len(s) ELSE from
      hi == IF to > Len(s) THEN Len(s) ELSE to
  IN  IF hi <= lo THEN <<>> ELSE SubSeq(s, lo + 1, hi)

\* String.prototype.slice(-n).
SliceLast(s, n) == IF Len(s) <= n THEN s ELSE SubSeq(s, Len(s) - n + 1, Len(s))

RECURSIVE Join(_, _)
\* Array.prototype.join.
Join(parts, sep) ==
  IF parts = <<>> THEN <<>>
  ELSE IF Len(parts) = 1 THEN parts[1]
  ELSE parts[1] \o sep \o Join(Tail(parts), sep)

\* Number.prototype.toString(10) of a non-negative integer.
RECURSIVE DecimalString(_)
DecimalString(n) ==
  LET d == <<"0", "1", "2", "3", "4", "5", "6", "7", "8", "9">>
  IN  IF n < 10 THEN <<d[n + 1]>> ELSE DecimalString(n \div 10) \o <<d[(n % 10) + 1]>>

\* Number.prototype.toString(16) of a non-negative integer.
RECURSIVE HexString(_)
HexString(n) ==
  LET d == <<"0", "1", "2", "3", "4", "5", "6", "7", "8", "9",
             "a", "b", "c", "d", "e", "f">>
  IN  IF n < 16 THEN <<d[n + 1]>> ELSE HexString(n \div 16) \o <<d[(n % 16) + 1]>>

\* x | y on non-negative integers.
RECURSIVE BitOr(_, _)
BitOr(x, y) ==
  IF x = 0 THEN y
  ELSE IF y = 0 THEN x
  ELSE 2 * BitOr(x \div 2, y \div 2) + (IF x % 2 = 1 \/ y % 2 = 1 THEN 1 ELSE 0)

\* x << 8 for a non-negative x below 2^23, where the 32-bit shift cannot wrap.
ShiftLeft8(x) == (x % 8388608) * 256

(***************************************************************************)
(* Address Classifier (utils/ssrf: isPrivateIP)                           *)
(***************************************************************************)

\* The text of a number in a template string: `${n}`.
NumberText(n) == IF n = NaN THEN <<"N", "a", "N">> ELSE DecimalString(n)

\* parts.map(Number)
MapNumber(parts) == [i \in 1..Len(parts) |-> Number(parts[i])]

\* A classifier that knows loopback, link-local and 0/8, and none of the
\* private ranges 10/8, 172.16/12 and 192.168/16.
PrivatePartsNoPrivateRanges(parts) ==
  IF \/ Len(parts) # 4
     \/ \E i \in 1..Len(parts) : parts[i] = NaN \/ parts[i] < 0 \/ parts[i] > 255
  THEN TRUE
  ELSE \/ parts[1] = 127
       \/ parts[1] = 169 /\ parts[2] = 254
       \/ parts[1] = 0

\* A classifier whose 172.16/12 range runs through 172.32.
PrivatePartsThrough32(parts) ==
  IF \/ Len(parts) # 4
     \/ \E i \in 1..Len(parts) : parts[i] = NaN \/ parts[i] < 0 \/ parts[i] > 255
  THEN TRUE
  ELSE \/ parts[1] = 127
       \/ parts[1] = 10
       \/ parts[1] = 172 /\ parts[2] >= 16 /\ parts[2] <= 32
       \/ parts[1] = 192 /\ parts[2] = 168
       \/ parts[1] = 169 /\ parts[2] = 254
       \/ parts[1] = 0

\* The body of isPrivateIPv4 after const parts = ip.split('.').map(Number):
\* true for anything that is not four numbers in 0..255, and for the reserved
\* ranges.
PrivateParts(parts) ==
  IF \/ Len(parts) # 4
     \/ \E i \in 1..Len(parts) : parts[i] = NaN \/ parts[i] < 0 \/ parts[i] > 255
  THEN TRUE
  ELSE \/ parts[1] = 127
       \/ parts[1] = 10
       \/ parts[1] = 172 /\ parts[2] >= 16 /\ parts[2] <= 31
       \/ parts[1] = 192 /\ parts[2] = 168
       \/ parts[1] = 169 /\ parts[2] = 254
       \/ parts[1] = 0

\* isPrivateIPv4: true for an address in a reserved IPv4 range, and for any
\* string that is not four numbers in 0..255.
isPrivateIPv4(ip) == PrivateParts(MapNumber(Split(ip, <<".">>)))

\* \d+\.\d+\.\d+\.\d+ matched against the whole of s.
IsDottedDigits(s) ==
  LET parts == Split(s, <<".">>)
  IN  /\ Len(parts) = 4
      /\ \A i \in 1..4 : parts[i] # <<>> /\ AllDigits(parts[i])

MappedPrefix == <<":", ":", "f", "f", "f", "f", ":">>

\* The result of a match that failed (a capture is never empty).
NoMatch == <<>>

\* ip.match(/::ffff:(\d+\.\d+\.\d+\.\d+)$/i): the captured dotted quad, or NoMatch.
\* The capture holds no colon, so it starts right after the last colon of ip.
MatchMappedDotted(ip) ==
  LET colons == {i \in 1..Len(ip) : ip[i] = ":"}
      last == IF colons = {} THEN 0 ELSE CHOOSE i \in colons : \A j \in colons : j <= i
      rest == SubSeq(ip, last + 1, Len(ip))
  IN  IF /\ last >= 7
         /\ ToLowerCase(SubSeq(ip, last - 6, last)) = MappedPrefix
         /\ IsDottedDigits(rest)
      THEN rest
      ELSE NoMatch

ZeroSegment == <<"0", "0", "0", "0">>

\* ip matches the pattern of an IPv4-mapped address in dotted form.
IsMappedDotted(ip) == Includes(ip, ".") /\ MatchMappedDotted(ip) # NoMatch

\* left ? left.split(':') : []
SplitPart(part) == IF part # <<>> THEN Split(part, <<":">>) ELSE <<>>

\* The left and right parts of ip around its first '::' (const [left, right] =
\* ip.split('::')).
LeftParts(ip) == SplitPart(Split(ip, <<":", ":">>)[1])

RightParts(ip) == SplitPart(Split(ip, <<":", ":">>)[2])

\* normalizeIPv6 throws a RangeError when Array(missing) gets a negative length.
normalizeIPv6Throws(ip) ==
  /\ ~IsMappedDotted(ip)
  /\ IncludesSeq(ip, <<":", ":">>)
  /\ 8 - Len(LeftParts(ip)) - Len(RightParts(ip)) < 0

\* The normal form of the mapped address with the octets p.
MappedNormalized(p) ==
  Join(<<ZeroSegment, ZeroSegment, ZeroSegment, ZeroSegment, ZeroSegment,
         <<"f", "f", "f", "f">>,
         PadStart4(HexString(BitOr(ShiftLeft8(p[1]), p[2]))),
         PadStart4(HexString(BitOr(ShiftLeft8(p[3]), p[4])))>>, <<":">>)

\* [...leftParts, ...middleParts, ...rightParts]
Expanded(leftParts, rightParts) ==
  leftParts \o [i \in 1..(8 - Len(leftParts) - Len(rightParts)) |-> ZeroSegment]
    \o rightParts

\* segments.map(s => s.padStart(4, '0').toLowerCase()).join(':')
NormalizedSegments(segments) ==
  Join([i \in 1..Len(segments) |-> ToLowerCase(PadStart4(segments[i]))], <<":">>)

\* normalizeIPv6: the address with '::' expanded and every segment padded to
\* four lower-case characters (when the call does not throw).
normalizeIPv6(ip) ==
  IF IsMappedDotted(ip)
  THEN MappedNormalized(MapNumber(Split(MatchMappedDotted(ip), <<".">>)))
  ELSE IF IncludesSeq(ip, <<":", ":">>)
  THEN NormalizedSegments(Expanded(LeftParts(ip), RightParts(ip)))
  ELSE NormalizedSegments(Split(ip, <<":">>))

LoopbackV6 ==
  Join(<<ZeroSegment, ZeroSegment, ZeroSegment, ZeroSegment, ZeroSegment,
         ZeroSegment, ZeroSegment, <<"0", "0", "0", "1">>>>, <<":">>)

\* '0000:0000:0000:0000:0000:ffff:'
MappedNormalizedPrefix ==
  Join(<<ZeroSegment, ZeroSegment, ZeroSegment, ZeroSegment, ZeroSegment,
         <<"f", "f", "f", "f">>, <<>>>>, <<":">>)

\* String.prototype.startsWith.
StartsWith(s, prefix) == OccursAt(s, prefix, 1)

\* isPrivateIPv6, once normalizeIPv6 has returned, throws a TypeError when the
\* last nine characters of a mapped address hold no ':' (hex2 is undefined).
NormalizedThrows(normalized) ==
  /\ normalized # LoopbackV6
  /\ StartsWith(normalized, MappedNormalizedPrefix)
  /\ Len(Split(SliceLast(normalized, 9), <<":">>)) < 2

\* isPrivateIPv6 throws: the RangeError of normalizeIPv6, or that TypeError.
isPrivateIPv6Throws(ip) ==
  /\ ~IsMappedDotted(ip)
  /\ \/ normalizeIPv6Throws(ip)
     \/ NormalizedThrows(normalizeIPv6(ip))

\* `${a}.${b}.${c}.${d}` for the bytes of the two segments [hex1, hex2].
MappedQuad(hs) ==
  Join(<<NumberText(ParseIntHex(Slice(hs[1], 0, 2))),
         NumberText(ParseIntHex(Slice(hs[1], 2, 4))),
         NumberText(ParseIntHex(Slice(hs[2], 0, 2))),
         NumberText(ParseIntHex(Slice(hs[2], 2, 4)))>>, <<".">>)

\* A first-segment test that takes fc00::/8 for the unique-local range.
PrivateFirstSegmentHalfUniqueLocal(firstSegment) ==
  \/ firstSegment >= 64512 /\ firstSegment <= 64767
  \/ firstSegment >= 65152 /\ firstSegment <= 65215

\* fc00::/7 and fe80::/10 by the first segment.
PrivateFirstSegment(firstSegment) ==
  \/ firstSegment >= 64512 /\ firstSegment <= 65023
  \/ firstSegment >= 65152 /\ firstSegment <= 65215

\* The body of isPrivateIPv6 after const normalized = normalizeIPv6(ip).
PrivateNormalized(normalized) ==
  IF normalized = LoopbackV6 THEN TRUE
  ELSE IF StartsWith(normalized, MappedNormalizedPrefix)
  THEN isPrivateIPv4(MappedQuad(Split(SliceLast(normalized, 9), <<":">>)))
  ELSE PrivateFirstSegment(ParseIntHex(Slice(normalized, 0, 4)))

\* isPrivateIPv6: the value returned (when the call does not throw).
isPrivateIPv6(ip) ==
  IF IsMappedDotted(ip) THEN isPrivateIPv4(MatchMappedDotted(ip))
  ELSE PrivateNormalized(normalizeIPv6(ip))

MetadataAddress ==
  <<"1", "6", "9", ".", "2", "5", "4", ".", "1", "6", "9", ".", "2", "5", "4">>

\* isPrivateIP throws instead of returning.
isPrivateIPThrows(ip) ==
  ip # MetadataAddress /\ Includes(ip, ":") /\ isPrivateIPv6Throws(ip)

\* isPrivateIP: the value returned (when the call does not throw).
isPrivateIP(ip) ==
  IF ip = MetadataAddress THEN TRUE
  ELSE IF Includes(ip, ":") THEN isPrivateIPv6(ip)
  ELSE isPrivateIPv4(ip)

(***************************************************************************)
(* Configuration (config.ts). Every value is read from the environment;   *)
(* the byte cap is set small so that bodies can be modelled byte by byte. *)
(***************************************************************************)

\* config.proxyTimeoutMs
proxyTimeoutMs == 30000

\* config.proxyMaxRequestSize
proxyMaxRequestSize == 5242880

\* config.proxyMaxResponseSize (PROXY_MAX_RESPONSE_SIZE=2)
proxyMaxResponseSize == 2

\* config.proxyMaxRedirects
proxyMaxRedirects == 3

\* new URL(config.baseUrl).origin
baseUrlOrigin == "http://localhost:3000"

(***************************************************************************)
(* JavaScript values of a JSON payload                                    *)
(***************************************************************************)

JsUndefined == [type |-> "undefined"]

JsNull == [type |-> "null"]

JsString(s) == [type |-> "string", str |-> s]

JsNumber(n) == [type |-> "number", num |-> n]

\* typeof v
TypeOf(v) == IF v.type = "null" THEN "object" ELSE v.type

\* !v
Falsy(v) ==
  \/ v.type \in {"undefined", "null"}
  \/ v.type = "string" /\ v.str = ""
  \/ v.type = "number" /\ v.num = 0

(***************************************************************************)
(* URLs. A URL string is modelled by what new URL() makes of it: its      *)
(* protocol, hostname (a character sequence) and path, or a failure to    *)
(* parse. typeof such a value is 'string'.                                *)
(***************************************************************************)

\* A string that new URL() parses into the given components.
UrlString(protocol, hostname, pathname) ==
  [type |-> "url", text |-> "url", parses |-> TRUE,
   protocol |-> protocol, hostname |-> hostname, pathname |-> pathname]

\* A non-empty string that new URL() rejects ('not-a-url').
NotAUrl ==
  [type |-> "url", text |-> "not-a-url", parses |-> FALSE,
   protocol |-> "", hostname |-> <<>>, pathname |-> ""]

\* typeof v, for payload fields that may hold a URL string.
TypeOfField(v) == IF v.type = "url" THEN "string" ELSE TypeOf(v)

(***************************************************************************)
(* Request Validator (utils/validation: validateProxyRequest)             *)
(***************************************************************************)

ALLOWED_METHODS == {"GET", "POST", "PUT", "PATCH", "DELETE", "HEAD"}

\* String.prototype.toUpperCase on the method strings of the model.
ToUpperCase(m) ==
  CASE m = "get" -> "GET" [] m = "post" -> "POST" [] m = "Put" -> "PUT"
    [] m = "head" -> "HEAD" [] m = "patch" -> "PATCH" [] m = "delete" -> "DELETE"
    [] m = "invalid" -> "INVALID"
    [] OTHER -> m

\* The ValidationError { field, message }.
ValidationError(field, message) == [field |-> field, message |-> message]

\* The null that validateProxyRequest returns for a valid payload.
NoValidationError == [field |-> "", message |-> ""]

\* Auth checks that look at the credentials before the type.
validateAuthCredentialsFirst(auth) ==
  IF auth.type = "object"
     /\ (TypeOf(auth.credentials) # "string" \/ auth.credentials.str = "")
  THEN ValidationError("auth.credentials",
         "auth.credentials is required and must be a non-empty string")
  ELSE IF ~(auth.type = "object" /\ auth.authType.type = "string"
            /\ auth.authType.str \in {"bearer", "basic", "api-key"})
  THEN ValidationError("auth.type",
         "auth.type must be \"bearer\", \"basic\", or \"api-key\"")
  ELSE IF /\ auth.authType.str = "api-key"
          /\ auth.headerName.type # "undefined"
          /\ (TypeOf(auth.headerName) # "string" \/ auth.headerName.str = "")
  THEN ValidationError("auth.headerName", "auth.headerName must be a non-empty string")
  ELSE NoValidationError

\* The checks of the auth object, in order.
validateAuth(auth) ==
  IF ~(auth.type = "object" /\ auth.authType.type = "string"
       /\ auth.authType.str \in {"bearer", "basic", "api-key"})
  THEN ValidationError("auth.type",
         "auth.type must be \"bearer\", \"basic\", or \"api-key\"")
  ELSE IF TypeOf(auth.credentials) # "string" \/ auth.credentials.str = ""
  THEN ValidationError("auth.credentials",
         "auth.credentials is required and must be a non-empty string")
  ELSE IF /\ auth.authType.str = "api-key"
          /\ auth.headerName.type # "undefined"
          /\ (TypeOf(auth.headerName) # "string" \/ auth.headerName.str = "")
  THEN ValidationError("auth.headerName", "auth.headerName must be a non-empty string")
  ELSE NoValidationError

\* validateProxyRequest(body, maxTimeout): the first failing check, or null.
validateProxyRequest(body, maxTimeout) ==
  IF Falsy(body) \/ TypeOf(body) # "object"
  THEN ValidationError("body", "Request body must be a JSON object")
  ELSE IF Falsy(body.url) \/ TypeOfField(body.url) # "string"
  THEN ValidationError("url", "url field is required and must be a string")
  ELSE IF ~body.url.parses
  THEN ValidationError("url", "url must be a valid URL")
  ELSE IF body.url.protocol \notin {"http:", "https:"}
  THEN ValidationError("url", "url must use http or https protocol")
  ELSE IF body.method.type # "undefined" /\ TypeOf(body.method) # "string"
  THEN ValidationError("method", "method must be a string")
  ELSE IF /\ body.method.type # "undefined"
          /\ ToUpperCase(body.method.str) \notin ALLOWED_METHODS
  THEN ValidationError("method",
         "method must be one of: GET, POST, PUT, PATCH, DELETE, HEAD")
  ELSE IF /\ body.timeout.type # "undefined"
          /\ (TypeOf(body.timeout) # "number" \/ body.timeout.num <= 0)
  THEN ValidationError("timeout", "timeout must be a positive number")
  ELSE IF body.timeout.type # "undefined" /\ body.timeout.num > maxTimeout
  THEN ValidationError("timeout",
         "timeout must not exceed " \o ToString(maxTimeout) \o "ms")
  ELSE IF body.contentType.type # "undefined" /\ TypeOf(body.contentType) # "string"
  THEN ValidationError("contentType", "contentType must be a string")
  ELSE IF body.accept.type # "undefined" /\ TypeOf(body.accept) # "string"
  THEN ValidationError("accept", "accept must be a string")
  ELSE IF body.auth.type = "undefined" THEN NoValidationError
  ELSE IF TypeOf(body.auth) # "object" \/ body.auth.type = "null"
  THEN ValidationError("auth", "auth must be an object")
  ELSE validateAuth(body.auth)

(***************************************************************************)
(* Target Resolver (utils/ssrf: resolveAndValidate)                       *)
(***************************************************************************)

BLOCKED_HOSTNAMES ==
  { <<"l", "o", "c", "a", "l", "h", "o", "s", "t">>,
    <<"m", "e", "t", "a", "d", "a", "t", "a", ".", "g", "o", "o", "g", "l", "e", ".",
      "i", "n", "t", "e", "r", "n", "a", "l">>,
    <<"m", "e", "t", "a", "d", "a", "t", "a", ".", "g", "o", "o", "g">> }

MsgInvalidUrl == "Invalid URL"

MsgProtocol == "Only http and https protocols are allowed"

MsgBlockedHost == "Hostname is blocked"

MsgDnsFailed == "DNS resolution failed"

MsgPrivate == "URL resolves to a private/internal IP address"

\* The messages of the TypeError and the RangeError that escape isPrivateIP.
MsgTypeError == "Cannot read properties of undefined (reading 'slice')"

MsgRangeError == "Invalid array length"

\* /^(\d{1,3}\.){3}\d{1,3}$/.test(hostname)
ipv4Regex(hostname) ==
  LET parts == Split(hostname, <<".">>)
  IN  /\ Len(parts) = 4
      /\ \A i \in 1..4 : Len(parts[i]) \in 1..3 /\ AllDigits(parts[i])

\* hostname.replace(/^\[|\]$/g, '')
StripBrackets(hostname) ==
  LET a == IF hostname # <<>> /\ hostname[1] = "[" THEN Tail(hostname) ELSE hostname
  IN  IF a # <<>> /\ a[Len(a)] = "]" THEN SubSeq(a, 1, Len(a) - 1) ELSE a

\* /^\[?([a-fA-F0-9:]+)\]?$/.test(hostname)
ipv6Regex(hostname) ==
  LET a == IF hostname # <<>> /\ hostname[1] = "[" THEN Tail(hostname) ELSE hostname
      inner == IF a # <<>> /\ a[Len(a)] = "]" THEN SubSeq(a, 1, Len(a) - 1) ELSE a
  IN  /\ inner # <<>>
      /\ \A i \in 1..Len(inner) : inner[i] \in HexDigits \cup {":"}

\* The outcome of resolveAndValidate: the value returned, or the message of
\* the error thrown.
Resolved(hostname, ip) == [ok |-> TRUE, message |-> "", hostname |-> hostname, ip |-> ip]

Rejected(message, hostname, ip) ==
  [ok |-> FALSE, message |-> message, hostname |-> hostname, ip |-> ip]

\* A resolver that returns the address without classifying it.
ValidateResolvedIPUnclassified(hostname, ip) == Resolved(hostname, ip)

\* The last step of resolveAndValidate (validate the resolved IP).
ValidateResolvedIP(hostname, ip) ==
  IF isPrivateIPThrows(ip)
  THEN Rejected(IF normalizeIPv6Throws(ip) THEN MsgRangeError ELSE MsgTypeError,
                hostname, ip)
  ELSE IF isPrivateIP(ip) THEN Rejected(MsgPrivate, hostname, ip)
  ELSE Resolved(hostname, ip)

\* A resolver that has no blocklist of hostnames.
ResolveStartNoBlocklist(url) ==
  IF ~url.parses
  THEN [kind |-> "settled", outcome |-> Rejected(MsgInvalidUrl, <<>>, <<>>)]
  ELSE IF url.protocol # "http:" /\ url.protocol # "https:"
  THEN [kind |-> "settled", outcome |-> Rejected(MsgProtocol, url.hostname, <<>>)]
  ELSE IF ipv4Regex(url.hostname)
  THEN [kind |-> "settled", outcome |-> ValidateResolvedIP(url.hostname, url.hostname)]
  ELSE IF ipv6Regex(url.hostname)
  THEN [kind |-> "settled",
        outcome |-> ValidateResolvedIP(url.hostname, StripBrackets(url.hostname))]
  ELSE [kind |-> "dns", outcome |-> Rejected("", url.hostname, <<>>)]

\* resolveAndValidate up to its first await: "dns" when the hostname must be
\* resolved, else "settled" with the outcome.
ResolveStart(url) ==
  IF ~url.parses
  THEN [kind |-> "settled", outcome |-> Rejected(MsgInvalidUrl, <<>>, <<>>)]
  ELSE IF url.protocol # "http:" /\ url.protocol # "https:"
  THEN [kind |-> "settled", outcome |-> Rejected(MsgProtocol, url.hostname, <<>>)]
  ELSE IF ToLowerCase(url.hostname) \in BLOCKED_HOSTNAMES
  THEN [kind |-> "settled", outcome |-> Rejected(MsgBlockedHost, url.hostname, <<>>)]
  ELSE IF ipv4Regex(url.hostname)
  THEN [kind |-> "settled", outcome |-> ValidateResolvedIP(url.hostname, url.hostname)]
  ELSE IF ipv6Regex(url.hostname)
  THEN [kind |-> "settled",
        outcome |-> ValidateResolvedIP(url.hostname, StripBrackets(url.hostname))]
  ELSE [kind |-> "dns", outcome |-> Rejected("", url.hostname, <<>>)]

\* The result of dns.resolve4 / dns.resolve6: it rejects, or yields addresses.
DnsError == [rejected |-> TRUE, addresses |-> <<>>]

DnsAddresses(addresses) == [rejected |-> FALSE, addresses |-> addresses]

\* The lookup gave no address to use: it rejected, or 'No DNS records found'.
DnsFailed(answer) == answer.rejected \/ Len(answer.addresses) = 0

(***************************************************************************)
(* Domain allowlist (routes/proxy)                                        *)
(***************************************************************************)

\* String.prototype.endsWith.
EndsWith(s, suffix) ==
  Len(suffix) <= Len(s) /\ SubSeq(s, Len(s) - Len(suffix) + 1, Len(s)) = suffix

\* A test that leaves out the dot before the domain.
isAllowedAnySuffix(hostname, domains) ==
  \E i \in 1..Len(domains) :
    \/ ToLowerCase(hostname) = ToLowerCase(domains[i])
    \/ EndsWith(ToLowerCase(hostname), ToLowerCase(domains[i]))

\* config.proxyAllowedDomains.some(domain => hostname === domain.toLowerCase()
\*   || hostname.endsWith('.' + domain.toLowerCase())), hostname lower-cased.
isAllowed(hostname, domains) ==
  \E i \in 1..Len(domains) :
    \/ ToLowerCase(hostname) = ToLowerCase(domains[i])
    \/ EndsWith(ToLowerCase(hostname), <<".">> \o ToLowerCase(domains[i]))

\* The allowlist check: passed when the list is empty or the hostname is allowed.
AllowlistPasses(url, domains) == Len(domains) = 0 \/ isAllowed(url.hostname, domains)

(***************************************************************************)
(* Response body bytes and the TextDecoder                                *)
(***************************************************************************)

\* The bytes of the model: 'A' (0x41), '7' (0x37) and the two bytes of U+00E9
\* (0xC3 0xA9).
ByteA == 65

Byte7 == 55

ByteLead == 195

ByteCont == 169

\* The code points the decoder can emit.
ReplacementChar == "U+FFFD"

\* TextDecoder.decode(chunk, { stream: true }) on UTF-8: pending is TRUE when
\* a lead byte waits for its continuation byte.
RECURSIVE DecodeBytes(_, _, _)
DecodeBytes(bytes, pending, out) ==
  IF bytes = <<>> THEN [text |-> out, pending |-> pending]
  ELSE LET b == bytes[1]
           flushed == IF pending THEN out \o <<ReplacementChar>> ELSE out
       IN  IF b = ByteLead THEN DecodeBytes(Tail(bytes), TRUE, flushed)
           ELSE IF b = ByteCont
           THEN DecodeBytes(Tail(bytes), FALSE,
                            IF pending THEN out \o <<"U+00E9">>
                                       ELSE out \o <<ReplacementChar>>)
           ELSE DecodeBytes(Tail(bytes), FALSE,
                            flushed \o <<IF b = Byte7 THEN "7" ELSE "A">>)

\* decoder.decode() without arguments: flush an incomplete sequence.
DecodeFlush(pending) == IF pending THEN <<ReplacementChar>> ELSE <<>>

\* A decoder that forgets the pending byte between chunks (decode without
\* { stream: true }).
RECURSIVE DecodeChunksUnstreamed(_, _)
DecodeChunksUnstreamed(chunks, pending) ==
  IF chunks = <<>> THEN <<>>
  ELSE LET d == DecodeBytes(chunks[1], FALSE, <<>>)
       IN  d.text \o DecodeFlush(d.pending) \o DecodeChunksUnstreamed(Tail(chunks), FALSE)

\* chunks.map(chunk => decoder.decode(chunk, { stream: true })), then
\* decoder.decode(), joined.
RECURSIVE DecodeChunks(_, _)
DecodeChunks(chunks, pending) ==
  IF chunks = <<>> THEN DecodeFlush(pending)
  ELSE LET d == DecodeBytes(chunks[1], pending, <<>>)
       IN  d.text \o DecodeChunks(Tail(chunks), d.pending)

\* parseInt(s, 10) of a header value: the longest prefix of digits, NaN if none.
RECURSIVE DigitPrefix(_)
DigitPrefix(s) ==
  IF s = <<>> \/ s[1] \notin Digits THEN <<>> ELSE <<s[1]>> \o DigitPrefix(Tail(s))

ParseInt10(s) ==
  IF DigitPrefix(s) = <<>> THEN NaN
  ELSE IF Len(DigitPrefix(s)) > 8 THEN Huge * 1000
  ELSE DecimalValue(DigitPrefix(s))

(***************************************************************************)
(* The relay handler (routes/proxy: proxy.post). One call is modelled     *)
(* from the arrival of its request to its reply; a step runs the handler  *)
(* from one await to the next.                                            *)
(***************************************************************************)

VARIABLES
  proxyAllowedDomains, \* config.proxyAllowedDomains of the process
  req,                 \* the inbound HTTP request: headers and raw body
  pc,                  \* the await the handler is suspended at, or idle / done
  reply,               \* the reply returned to the caller
  proxyReq,            \* the validated payload
  stage,               \* which resolveAndValidate call is pending
  validating,          \* the URL that call was given
  outgoingHeaders,     \* the headers object built for the outbound requests
  method,              \* the upper-cased method of the first hop
  timeout,             \* the delay the deadline timer was armed with
  currentUrl,          \* the URL of the current hop
  redirectCount,       \* the number of redirects followed
  response,            \* the response of the last fetch
  timer,               \* the deadline timer: none, armed, cleared or fired
  aborted,             \* controller.signal.aborted
  chunks,              \* the chunks retained by the body reader
  totalSize,           \* the running byte total of the body reader
  readPos,             \* the number of chunks the upstream stream has delivered
  readerCancelled,     \* reader.cancel() was called
  fetches,             \* history: the outbound requests sent, in order
  validations,         \* history: the outcomes of resolveAndValidate
  armCount,            \* history: the number of setTimeout calls of the call
  lookups,             \* history: the DNS queries of the latest resolveAndValidate
  elapsedAt,           \* history: where the handler was when the delay elapsed
  payload,             \* the value validateProxyRequest is applied to on its own
  validationError,     \* what validateProxyRequest returned for it
  proxyRateLimitStore, \* the Map of middleware/proxyRateLimit
  rateLimitStore,      \* the Map of middleware/rateLimit
  now,                 \* Date.now()
  served,              \* history: what the limiters did with each request
  running,             \* the number of requests whose next() has not returned yet
  address,             \* the string isPrivateIP is applied to on its own
  verdict,             \* what isPrivateIP did with it
  db,                  \* the committed content of the LMDB database of pages
  writes,              \* the puts queued for a coming LMDB transaction
  posts,               \* the POST /v1/pages/:id handlers, in order of arrival
  lastGet              \* the reply of the GET /p/:id or /p/:id/raw

vars ==
  <<proxyAllowedDomains, req, pc, reply, proxyReq, stage, validating, outgoingHeaders,
    method, timeout, currentUrl, redirectCount, response, timer, aborted, chunks,
    totalSize, readPos, readerCancelled, fetches, validations, armCount, lookups,
    elapsedAt, payload, validationError, proxyRateLimitStore, rateLimitStore, now, served,
    running, address, verdict, db, writes, posts, lastGet>>

\* The limiters' state.
limiterVars == <<proxyRateLimitStore, rateLimitStore, now, served, running>>

\* The state of the classifier run on its own.
classifierVars == <<address, verdict>>

\* The variables no step of the handler changes.
\* The state of the page routes.
pagesVars == <<db, writes, posts, lastGet>>

fixedVars ==
  <<proxyAllowedDomains, payload, validationError, limiterVars, classifierVars,
    pagesVars>>

\* The handler's state as one record, so that its straight-line code composes.
Handler ==
  [pc |-> pc, reply |-> reply, proxyReq |-> proxyReq, stage |-> stage,
   validating |-> validating, outgoingHeaders |-> outgoingHeaders, method |-> method,
   timeout |-> timeout, currentUrl |-> currentUrl, redirectCount |-> redirectCount,
   response |-> response, timer |-> timer, aborted |-> aborted, chunks |-> chunks,
   totalSize |-> totalSize, readPos |-> readPos, readerCancelled |-> readerCancelled,
   fetches |-> fetches, validations |-> validations, armCount |-> armCount,
   lookups |-> lookups]

\* The handler's state after a step.
Becomes(h) ==
  /\ pc' = h.pc
  /\ reply' = h.reply
  /\ proxyReq' = h.proxyReq
  /\ stage' = h.stage
  /\ validating' = h.validating
  /\ outgoingHeaders' = h.outgoingHeaders
  /\ method' = h.method
  /\ timeout' = h.timeout
  /\ currentUrl' = h.currentUrl
  /\ redirectCount' = h.redirectCount
  /\ response' = h.response
  /\ timer' = h.timer
  /\ aborted' = h.aborted
  /\ chunks' = h.chunks
  /\ totalSize' = h.totalSize
  /\ readPos' = h.readPos
  /\ readerCancelled' = h.readerCancelled
  /\ fetches' = h.fetches
  /\ validations' = h.validations
  /\ armCount' = h.armCount
  /\ lookups' = h.lookups

\* Values of fields not yet assigned.
NoUrl == UrlString("", <<>>, "")

\* A headers object without entries.
NoHeaders == [n \in {} |-> ""]

\* A string value given by its characters.
Text(chars) == [type |-> "text", chars |-> chars]

NoProxyResponse == [status |-> 0, headers |-> NoHeaders, body |-> Text(<<>>)]

NoReply == [status |-> 0, error |-> "", proxyResponse |-> NoProxyResponse]

NoLocation == [kind |-> "none", url |-> NoUrl, path |-> ""]

NoResponse ==
  [status |-> 0, location |-> NoLocation, contentLength |-> <<>>,
   headers |-> NoHeaders, hasBody |-> FALSE, body |-> <<>>]

\* return c.json({ error }, status)
ReplyError(h, status, error) ==
  [h EXCEPT !.pc = "done",
            !.reply = [status |-> status, error |-> error,
                       proxyResponse |-> NoProxyResponse]]

\* return c.json(proxyResponse)
ReplyOk(h, proxyResponse) ==
  [h EXCEPT !.pc = "done",
            !.reply = [status |-> 200, error |-> "", proxyResponse |-> proxyResponse]]

\* clearTimeout(timeoutId): a timer that has fired or was cleared stays so.
clearTimeout(h) == [h EXCEPT !.timer = IF @ = "armed" THEN "cleared" ELSE @]

\* outgoingHeaders[name] = value
SetHeader(headers, name, value) ==
  [n \in DOMAIN headers \cup {name} |-> IF n = name THEN value ELSE headers[n]]

\* Headers whose Authorization value is the bare credentials, without the
\* scheme word.
BuildHeadersNoScheme(p) ==
  LET h0 == [n \in {"User-Agent"} |-> "ZenBin-Proxy/1.0"]
      h1 == IF ~Falsy(p.contentType) THEN SetHeader(h0, "Content-Type", p.contentType.str)
            ELSE IF p.body.type # "undefined"
            THEN SetHeader(h0, "Content-Type", "application/json")
            ELSE h0
      h2 == IF ~Falsy(p.accept) THEN SetHeader(h1, "Accept", p.accept.str) ELSE h1
  IN  IF Falsy(p.auth) THEN h2
      ELSE IF p.auth.authType.str \in {"bearer", "basic"}
      THEN SetHeader(h2, "Authorization", p.auth.credentials.str)
      ELSE IF p.auth.authType.str = "api-key"
      THEN SetHeader(h2,
                     IF Falsy(p.auth.headerName) THEN "X-API-Key"
                                                 ELSE p.auth.headerName.str,
                     p.auth.credentials.str)
      ELSE h2

\* Step 7: the headers of the outbound requests, the auth header last.
BuildHeaders(p) ==
  LET h0 == [n \in {"User-Agent"} |-> "ZenBin-Proxy/1.0"]
      h1 == IF ~Falsy(p.contentType) THEN SetHeader(h0, "Content-Type", p.contentType.str)
            ELSE IF p.body.type # "undefined"
            THEN SetHeader(h0, "Content-Type", "application/json")
            ELSE h0
      h2 == IF ~Falsy(p.accept) THEN SetHeader(h1, "Accept", p.accept.str) ELSE h1
  IN  IF Falsy(p.auth) THEN h2
      ELSE IF p.auth.authType.str = "bearer"
      THEN SetHeader(h2, "Authorization", "Bearer " \o p.auth.credentials.str)
      ELSE IF p.auth.authType.str = "basic"
      THEN SetHeader(h2, "Authorization", "Basic " \o p.auth.credentials.str)
      ELSE IF p.auth.authType.str = "api-key"
      THEN SetHeader(h2,
                     IF Falsy(p.auth.headerName) THEN "X-API-Key"
                                                 ELSE p.auth.headerName.str,
                     p.auth.credentials.str)
      ELSE h2

\* A loop that arms a new deadline for every redirect hop.
fetchRearmed(h) ==
  LET h1 == IF h.redirectCount > 0
            THEN [h EXCEPT !.timer = "armed", !.aborted = FALSE, !.armCount = @ + 1]
            ELSE h
      sendsBody == /\ h1.redirectCount = 0
                   /\ h1.proxyReq.body.type # "undefined"
                   /\ h1.method \notin {"GET", "HEAD"}
      request == [url |-> h1.currentUrl,
                  method |-> IF h1.redirectCount = 0 THEN h1.method ELSE "GET",
                  headers |-> h1.outgoingHeaders,
                  hasBody |-> sendsBody]
  IN  IF h1.aborted THEN [h1 EXCEPT !.pc = "fetch"]
      ELSE [h1 EXCEPT !.pc = "fetch", !.fetches = Append(@, request)]

\* A fetch that repeats the caller's method and body on every hop.
fetchRepeatingMethod(h) ==
  LET request == [url |-> h.currentUrl,
                  method |-> h.method,
                  headers |-> h.outgoingHeaders,
                  hasBody |-> /\ h.proxyReq.body.type # "undefined"
                              /\ h.method \notin {"GET", "HEAD"}]
  IN  IF h.aborted THEN [h EXCEPT !.pc = "fetch"]
      ELSE [h EXCEPT !.pc = "fetch", !.fetches = Append(@, request)]

\* One iteration of the loop up to its await: fetch(currentUrl, fetchOptions).
\* With the signal already aborted, fetch rejects without sending anything.
fetch(h) ==
  LET sendsBody == /\ h.redirectCount = 0
                   /\ h.proxyReq.body.type # "undefined"
                   /\ h.method \notin {"GET", "HEAD"}
      request == [url |-> h.currentUrl,
                  method |-> IF h.redirectCount = 0 THEN h.method ELSE "GET",
                  headers |-> h.outgoingHeaders,
                  hasBody |-> sendsBody]
  IN  IF h.aborted THEN [h EXCEPT !.pc = "fetch"]
      ELSE [h EXCEPT !.pc = "fetch", !.fetches = Append(@, request)]

\* A step 8 that arms the configured default whatever the caller asked for.
StartFetchingDefaultTimeout(h) ==
  LET p == h.proxyReq
  IN  fetch([h EXCEPT
        !.outgoingHeaders = BuildHeaders(p),
        !.method = ToUpperCase(IF Falsy(p.method) THEN "GET" ELSE p.method.str),
        !.timeout = proxyTimeoutMs,
        !.currentUrl = p.url,
        !.redirectCount = 0,
        !.timer = "armed",
        !.armCount = @ + 1])

\* Steps 7 and 8 up to the first fetch: headers, method, deadline, loop entry.
StartFetching(h) ==
  LET p == h.proxyReq
  IN  fetch([h EXCEPT
        !.outgoingHeaders = BuildHeaders(p),
        !.method = ToUpperCase(IF Falsy(p.method) THEN "GET" ELSE p.method.str),
        !.timeout = IF Falsy(p.timeout) THEN proxyTimeoutMs ELSE p.timeout.num,
        !.currentUrl = p.url,
        !.redirectCount = 0,
        !.timer = "armed",
        !.armCount = @ + 1])

\* A catch that sends a failed request once more.
CatchFetchErrorRetrying(h, isAbortError, message) ==
  IF isAbortError THEN ReplyError(clearTimeout(h), 504, "Request timed out")
  ELSE IF Len(h.fetches) <= proxyMaxRedirects + 1
  THEN [h EXCEPT !.fetches = Append(@, @[Len(@)])]
  ELSE ReplyError(clearTimeout(h), 502, message)

\* A catch that leaves the timer armed when it reports a network error.
CatchFetchErrorKeepingTimer(h, isAbortError, message) ==
  IF isAbortError THEN ReplyError(clearTimeout(h), 504, "Request timed out")
  ELSE ReplyError(h, 502, message)

\* The catch of the fetch loop: clearTimeout, then 504 for an AbortError and
\* 502 with the error's message for anything else.
CatchFetchError(h, isAbortError, message) ==
  IF isAbortError THEN ReplyError(clearTimeout(h), 504, "Request timed out")
  ELSE ReplyError(clearTimeout(h), 502, message)

\* A limit that is reached one redirect early.
TooManyRedirectsOffByOne(count) == count >= proxyMaxRedirects

\* if (redirectCount > maxRedirects)
TooManyRedirects(count) == count > proxyMaxRedirects

\* A loop that follows a redirect without looking at the outcome of
\* resolveAndValidate for its target.
ValidatedRedirectUnchecked(h, url, st, outcome, domains) ==
  LET h1 == [h EXCEPT !.validations = @ \cup
                        {[url |-> url, stage |-> st, ok |-> outcome.ok,
                          ip |-> outcome.ip]}]
  IN  IF st = "initial"
      THEN IF ~outcome.ok THEN ReplyError(h1, 400, outcome.message)
           ELSE StartFetching(h1)
      ELSE LET h2 == [h1 EXCEPT !.currentUrl = url, !.redirectCount = @ + 1]
           IN  IF TooManyRedirects(h2.redirectCount)
               THEN ReplyError(clearTimeout(h2), 502,
                      "Too many redirects (max: " \o ToString(proxyMaxRedirects) \o ")")
               ELSE fetch(h2)

\* The code after resolveAndValidate settled for the request's own URL
\* (step 6), or for a redirect target (the rest of the loop body).
Validated(h, url, st, outcome, domains) ==
  LET h1 == [h EXCEPT !.validations = @ \cup
                        {[url |-> url, stage |-> st, ok |-> outcome.ok,
                          ip |-> outcome.ip]}]
  IN  IF st = "initial"
      THEN IF ~outcome.ok THEN ReplyError(h1, 400, outcome.message)
           ELSE StartFetching(h1)
      ELSE IF ~outcome.ok
           THEN ReplyError(clearTimeout(h1), 400, "Redirect blocked: " \o outcome.message)
           ELSE IF ~AllowlistPasses(url, domains)
           THEN ReplyError(clearTimeout(h1), 400,
                           "Redirect target domain is not in the allowlist")
           ELSE LET h2 == [h1 EXCEPT !.currentUrl = url, !.redirectCount = @ + 1]
                IN  IF TooManyRedirects(h2.redirectCount)
                    THEN ReplyError(clearTimeout(h2), 502,
                           "Too many redirects (max: " \o ToString(proxyMaxRedirects)
                             \o ")")
                    ELSE fetch(h2)

\* await resolveAndValidate(url): settled at once, or suspended on DNS.
BeginValidate(h, url, st, domains) ==
  IF ResolveStart(url).kind = "dns"
  THEN [h EXCEPT !.pc = "dns4", !.validating = url, !.stage = st, !.lookups = <<>>]
  ELSE Validated([h EXCEPT !.lookups = <<>>], url, st, ResolveStart(url).outcome,
                 domains)

\* new URL(location, currentUrl).toString()
ResolveLocation(location, base) ==
  IF location.kind = "absolute" THEN location.url
  ELSE UrlString(base.protocol, base.hostname, location.path)

\* contentType.includes('application/json') for the header values of the model.
IncludesJson(value) ==
  value \in {"application/json", "application/json; charset=utf-8"}

\* key.toLowerCase() for the header names of the model.
LowerName(key) ==
  CASE key \in {"Set-Cookie", "SET-COOKIE"} -> "set-cookie"
    [] key = "Content-Type" -> "content-type"
    [] key = "X-Upstream" -> "x-upstream"
    [] OTHER -> key

\* A header filter that compares the name as it was received.
StripSetCookieExact(headers) ==
  [key \in {k \in DOMAIN headers : k # "set-cookie"} |-> headers[key]]

\* Step 10, first part: the response headers without Set-Cookie.
StripSetCookie(headers) ==
  [key \in {k \in DOMAIN headers : LowerName(k) # "set-cookie"} |-> headers[key]]

\* response.headers.get(name) || '': the lookup ignores the case of names.
HeaderGet(headers, name) ==
  IF \E k \in DOMAIN headers : LowerName(k) = name
  THEN headers[CHOOSE k \in DOMAIN headers : LowerName(k) = name]
  ELSE ""

\* JSON.parse throws for a text of the model unless it is a numeral of 7s.
JsonParseThrows(chars) == chars = <<>> \/ \E i \in 1..Len(chars) : chars[i] # "7"

\* JSON.parse of a numeral.
JsonParse(chars) == JsNumber(DecimalValue(chars))

\* Step 10, second part: the body parsed as JSON when the upstream says it is
\* JSON and it parses, else the text.
ParsedBody(headers, responseBody) ==
  IF IncludesJson(HeaderGet(headers, "content-type")) /\ ~JsonParseThrows(responseBody)
  THEN JsonParse(responseBody)
  ELSE Text(responseBody)

\* A step 10 whose JSON.parse is not guarded: a body that does not parse
\* becomes an error reply.
FinishParseUnguarded(h, responseBody) ==
  IF /\ IncludesJson(HeaderGet(h.response.headers, "content-type"))
     /\ JsonParseThrows(responseBody)
  THEN ReplyError(h, 502, "Unexpected token")
  ELSE ReplyOk(h, [status |-> h.response.status,
                   headers |-> StripSetCookie(h.response.headers),
                   body |-> ParsedBody(h.response.headers, responseBody)])

\* Steps 10 and 11: the reply built from the final response and its body text.
Finish(h, responseBody) ==
  ReplyOk(h, [status |-> h.response.status,
              headers |-> StripSetCookie(h.response.headers),
              body |-> ParsedBody(h.response.headers, responseBody)])

\* The code between the loop and the first reader.read(): clearTimeout, the
\* declared-size check and getReader().
AfterLoop(h) ==
  LET h1 == clearTimeout(h)
      responseContentLength == h1.response.contentLength
  IN  IF /\ responseContentLength # <<>>
         /\ ParseInt10(responseContentLength) > proxyMaxResponseSize
      THEN ReplyError(h1, 502, "Response too large")
      ELSE IF ~h1.response.hasBody THEN Finish(h1, <<>>)
      ELSE [h1 EXCEPT !.pc = "read", !.chunks = <<>>, !.totalSize = 0, !.readPos = 0]

\* A status list that takes 300 Multiple Choices for a redirect as well.
RedirectStatusesAnd300 == {300, 301, 302, 303, 307, 308}

\* [301, 302, 303, 307, 308].includes(response.status)
RedirectStatuses == {301, 302, 303, 307, 308}

\* A loop whose URL constructor is outside the try: a Location that does not
\* parse reaches the error handler of the application.
OnResponseUncaughtUrl(h, resp, domains) ==
  LET h1 == [h EXCEPT !.response = resp]
  IN  IF resp.status \in RedirectStatuses /\ resp.location.kind # "none"
      THEN IF resp.location.kind = "invalid"
           THEN ReplyError(h1, 500, "Internal server error")
           ELSE BeginValidate(h1, ResolveLocation(resp.location, h1.currentUrl),
                              "redirect", domains)
      ELSE AfterLoop(h1)

\* The loop body after fetch resolved with a response.
OnResponse(h, resp, domains) ==
  LET h1 == [h EXCEPT !.response = resp]
  IN  IF resp.status \in RedirectStatuses /\ resp.location.kind # "none"
      THEN IF resp.location.kind = "invalid"
           THEN CatchFetchError(h1, FALSE, "Invalid URL")
           ELSE BeginValidate(h1, ResolveLocation(resp.location, h1.currentUrl),
                              "redirect", domains)
      ELSE AfterLoop(h1)

\* A read loop that buffers the chunk before it looks at the total.
OnChunkPushFirst(h, value) ==
  LET h1 == [h EXCEPT !.totalSize = @ + Len(value), !.readPos = @ + 1,
                      !.chunks = Append(@, value)]
  IN  IF h1.totalSize > proxyMaxResponseSize
      THEN ReplyError([h1 EXCEPT !.readerCancelled = TRUE], 502, "Response too large")
      ELSE h1

\* One turn of the read loop for a chunk the stream delivered.
OnChunk(h, value) ==
  LET h1 == [h EXCEPT !.totalSize = @ + Len(value), !.readPos = @ + 1]
  IN  IF h1.totalSize > proxyMaxResponseSize
      THEN ReplyError([h1 EXCEPT !.readerCancelled = TRUE], 502, "Response too large")
      ELSE [h1 EXCEPT !.chunks = Append(@, value)]

\* The read loop ended (done): decode the retained chunks and reply.
OnDone(h) == Finish(h, DecodeChunks(h.chunks, FALSE))

(***************************************************************************)
(* The inbound request and steps 1 to 6                                   *)
(***************************************************************************)

\* new URL(referer).origin for the Referer values of the model; "" when the
\* constructor throws.
RefererOrigin(referer) ==
  CASE referer = "http://localhost:3000/p/demo" -> "http://localhost:3000"
    [] referer = "http://evil.example/p/demo" -> "http://evil.example"
    [] OTHER -> ""

\* An origin check that lets a request without Origin and Referer pass.
originValidMissingAllowed(r) ==
  IF r.origin # "" THEN r.origin = baseUrlOrigin
  ELSE IF r.referer # "" THEN RefererOrigin(r.referer) = baseUrlOrigin
  ELSE TRUE

\* An origin check that is satisfied by either header.
originValidEitherHeader(r) ==
  \/ r.origin # "" /\ r.origin = baseUrlOrigin
  \/ r.referer # "" /\ RefererOrigin(r.referer) = baseUrlOrigin

\* Step 2: the origin check.
originValid(r) ==
  IF r.origin # "" THEN r.origin = baseUrlOrigin
  ELSE IF r.referer # "" THEN RefererOrigin(r.referer) = baseUrlOrigin
  ELSE FALSE

\* The body that c.req.json() rejects.
InvalidJson == [type |-> "invalid-json"]

\* Steps 1 to 3 with the size test ahead of the origin test.
OnRequestSizeFirst(h, r) ==
  IF r.contentType = "" \/ ~IncludesJson(r.contentType)
  THEN ReplyError(h, 403, "Content-Type must be application/json")
  ELSE IF r.contentLength # <<>> /\ ParseInt10(r.contentLength) > proxyMaxRequestSize
  THEN ReplyError(h, 413, "Request body too large")
  ELSE IF ~originValid(r)
  THEN ReplyError(h, 403, "Request must originate from ZenBin page")
  ELSE [h EXCEPT !.pc = "json"]

\* Steps 1 to 3, up to await c.req.json().
OnRequest(h, r) ==
  IF r.contentType = "" \/ ~IncludesJson(r.contentType)
  THEN ReplyError(h, 403, "Content-Type must be application/json")
  ELSE IF ~originValid(r)
  THEN ReplyError(h, 403, "Request must originate from ZenBin page")
  ELSE IF r.contentLength # <<>> /\ ParseInt10(r.contentLength) > proxyMaxRequestSize
  THEN ReplyError(h, 413, "Request body too large")
  ELSE [h EXCEPT !.pc = "json"]

\* Steps 4 to 6, up to the await inside resolveAndValidate.
OnBody(h, body, domains) ==
  IF body = InvalidJson THEN ReplyError(h, 400, "Invalid JSON in request body")
  ELSE LET verr == validateProxyRequest(body, proxyTimeoutMs)
       IN  IF verr # NoValidationError
           THEN ReplyError(h, 400, verr.field \o ": " \o verr.message)
           ELSE IF ~AllowlistPasses(body.url, domains)
           THEN ReplyError(h, 400, "Target domain is not in the allowlist")
           ELSE BeginValidate([h EXCEPT !.proxyReq = body], body.url, "initial", domains)

(***************************************************************************)
(* The environment: hosts, DNS answers, upstream responses, requests      *)
(***************************************************************************)

\* Bounds of the model.
MaxChunks == 2

HostA == <<"a", ".", "i", "o">>

HostB == <<"b", ".", "i", "o">>

\* A subdomain of HostA, a name that only ends with the letters of HostA, and
\* HostA as a configuration may spell it.
HostSub == <<"x", ".", "a", ".", "i", "o">>

HostLookalike == <<"x", "a", ".", "i", "o">>

HostAUpper == <<"A", ".", "I", "O">>

Localhost == <<"l", "o", "c", "a", "l", "h", "o", "s", "t">>

Loopback4 == <<"1", "2", "7", ".", "0", ".", "0", ".", "1">>

Private10 == <<"1", "0", ".", "0", ".", "0", ".", "1">>

Private192 == <<"1", "9", "2", ".", "1", "6", "8", ".", "1", ".", "1">>

Public4 == <<"8", ".", "8", ".", "8", ".", "8">>

Public6 == <<"2", "0", "0", "1", ":", "d", "b", "8", ":", ":", "1">>

UniqueLocal6 == <<"f", "d", "0", "0", ":", ":", "1">>

BracketedLoopback6 == <<"[", ":", ":", "1", "]">>

UrlA == UrlString("http:", HostA, "/")

UrlB == UrlString("https:", HostB, "/")

UrlSub == UrlString("https:", HostSub, "/")

UrlLookalike == UrlString("https:", HostLookalike, "/")

UrlPublicLiteral == UrlString("http:", Public4, "/")

PrivateLiteralUrls ==
  { UrlString("http:", Loopback4, "/test"),
    UrlString("http:", Private10, "/api"),
    UrlString("http:", Private192, "/api"),
    UrlString("http:", MetadataAddress, "/latest/meta-data"),
    UrlString("http:", BracketedLoopback6, "/") }

UrlLocalhost == UrlString("http:", Localhost, "/")

MetadataGoogleInternal ==
  <<"m", "e", "t", "a", "d", "a", "t", "a", ".", "g", "o", "o", "g", "l", "e", ".", "i", "n", "t", "e", "r", "n", "a", "l">>

MetadataGoog == <<"m", "e", "t", "a", "d", "a", "t", "a", ".", "g", "o", "o", "g">>

\* URLs whose hostname is one of the blocked names.
BlockedHostUrls ==
  { UrlLocalhost,
    UrlString("http:", MetadataGoogleInternal, "/computeMetadata/v1/"),
    UrlString("https:", MetadataGoog, "/") }

UrlFtp == UrlString("ftp:", HostA, "/")

\* What dns.resolve4 and dns.resolve6 can settle with.
Dns4Answers ==
  {DnsError, DnsAddresses(<<>>), DnsAddresses(<<Public4>>),
   DnsAddresses(<<Private10, Public4>>)}

Dns6Answers ==
  {DnsError, DnsAddresses(<<>>), DnsAddresses(<<Public6>>),
   DnsAddresses(<<UniqueLocal6>>)}

\* The Location headers of the model.
Absolute(url) == [kind |-> "absolute", url |-> url, path |-> ""]

Relative(path) == [kind |-> "relative", url |-> NoUrl, path |-> path]

InvalidLocation == [kind |-> "invalid", url |-> NoUrl, path |-> ""]

Locations ==
  { Absolute(UrlB), Absolute(UrlString("http:", Loopback4, "/admin")),
    Absolute(UrlString("http:", MetadataGoogleInternal, "/computeMetadata/v1/")),
    Absolute(UrlFtp), Relative("/next"), InvalidLocation }

Chunks == {<<ByteLead>>, <<ByteCont>>, <<ByteA, ByteA>>}

\* The bodies an upstream can stream: up to MaxChunks chunks.
UpstreamBodies == UNION {[1..n -> Chunks] : n \in 0..MaxChunks}

\* Declared Content-Length values: none, within the cap, above the cap.
ContentLengths == {<<>>, <<"1">>, <<"9">>}

\* A redirect that names a target carries no body of interest: the handler
\* never reads it.
RedirectResponses ==
  [status : {302, 307}, location : Locations, contentLength : {<<>>},
   headers : {NoHeaders}, hasBody : {FALSE}, body : {<<>>}]

\* Responses the loop takes as final: a plain 200 (with or without a Location
\* header), a 302 without Location, and a response without a body.
\* Response headers other than Location and Content-Length, which the model
\* holds in fields of their own: a text body, and JSON bodies with cookies.
TextHeaders == [n \in {"content-type"} |-> "text/plain"]

JsonHeaders ==
  [n \in {"Content-Type", "Set-Cookie", "X-Upstream"} |->
     CASE n = "Content-Type" -> "application/json"
       [] n = "Set-Cookie" -> "sid=1"
       [] n = "X-Upstream" -> "u"]

JsonCharsetHeaders ==
  [n \in {"content-type", "set-cookie"} |->
     IF n = "content-type" THEN "application/json; charset=utf-8" ELSE "sid=2"]

HtmlHeaders ==
  [n \in {"content-type", "SET-COOKIE", "etag"} |->
     CASE n = "content-type" -> "text/html"
       [] n = "SET-COOKIE" -> "sid=3"
       [] n = "etag" -> "e"]

\* Final responses with a declared Content-Length, with cookies, with JSON
\* bodies that parse (7) and that do not (AA, a lone lead byte).
DeclaredResponses ==
  { [status |-> 200, location |-> NoLocation, contentLength |-> <<"9">>,
     headers |-> TextHeaders, hasBody |-> TRUE, body |-> <<<<ByteA>>>>],
    [status |-> 200, location |-> NoLocation, contentLength |-> <<"1">>,
     headers |-> TextHeaders, hasBody |-> TRUE, body |-> <<<<ByteA, ByteA>>, <<ByteA>>>>],
    [status |-> 200, location |-> Absolute(UrlB), contentLength |-> <<"1">>,
     headers |-> JsonHeaders, hasBody |-> TRUE, body |-> <<<<Byte7>>>>],
    [status |-> 200, location |-> NoLocation, contentLength |-> <<>>,
     headers |-> JsonHeaders, hasBody |-> TRUE, body |-> <<<<ByteA, ByteA>>>>],
    [status |-> 200, location |-> NoLocation, contentLength |-> <<>>,
     headers |-> JsonCharsetHeaders, hasBody |-> TRUE, body |-> <<<<ByteLead>>>>],
    [status |-> 200, location |-> NoLocation, contentLength |-> <<>>,
     headers |-> JsonCharsetHeaders, hasBody |-> TRUE, body |-> <<<<Byte7>>, <<Byte7>>>>],
    [status |-> 200, location |-> NoLocation, contentLength |-> <<>>,
     headers |-> HtmlHeaders, hasBody |-> TRUE, body |-> <<<<Byte7>>>>],
    [status |-> 204, location |-> NoLocation, contentLength |-> <<>>,
     headers |-> JsonHeaders, hasBody |-> FALSE, body |-> <<>>] }

FinalResponses ==
  [status : {200}, location : {NoLocation}, contentLength : {<<>>},
   headers : {TextHeaders}, hasBody : {TRUE}, body : UpstreamBodies]
  \cup DeclaredResponses
  \cup
  [status : {302}, location : {NoLocation}, contentLength : {<<>>},
   headers : {NoHeaders}, hasBody : {FALSE}, body : {<<>>}]

Responses == RedirectResponses \cup FinalResponses

\* Payload objects: absent fields are undefined.
Payload(url) ==
  [type |-> "object", url |-> url, method |-> JsUndefined, body |-> JsUndefined,
   timeout |-> JsUndefined, contentType |-> JsUndefined, accept |-> JsUndefined,
   auth |-> JsUndefined]

AuthObject(authType, credentials, headerName) ==
  [type |-> "object", authType |-> authType, credentials |-> credentials,
   headerName |-> headerName]

AuthTypes == {JsString("bearer"), JsString("basic"), JsString("api-key"),
              JsString("oauth"), JsUndefined}

Credentials == {JsString("s3cret"), JsString(""), JsUndefined}

HeaderNames == {JsUndefined, JsString(""), JsString("X-Custom-Key"), JsString("Host"),
                JsString("Authorization"), JsString("content-length"),
                JsString("Transfer-Encoding"), JsNumber(7)}

\* Every auth value of the model, valid or not.
Auths ==
  {AuthObject(t, c, n) : t \in AuthTypes, c \in Credentials, n \in HeaderNames}
  \cup {JsNull, JsString("token")}

\* The payloads the validator is applied to: every combination of the field
\* values of the model, and two bodies that are no objects.
ValidatorPayloads ==
  [type : {"object"},
   url : {UrlA, UrlFtp, NotAUrl, JsUndefined, JsNumber(123), JsString("")},
   method : {JsUndefined, JsString("post"), JsString("invalid"), JsNumber(1)},
   body : {JsUndefined},
   timeout : {JsUndefined, JsNumber(5000), JsNumber(0), JsNumber(60000),
              JsString("fast")},
   contentType : {JsUndefined, JsNumber(1)},
   accept : {JsUndefined, JsNumber(1)},
   auth : Auths \cup {JsUndefined}]
  \cup {JsNull, JsString("string")}

\* The auth values of the relay calls.
RelayAuths ==
  { AuthObject(JsString("bearer"), JsString("s3cret"), JsUndefined),
    AuthObject(JsString("basic"), JsString("s3cret"), JsUndefined),
    AuthObject(JsString("api-key"), JsString("s3cret"), JsUndefined),
    AuthObject(JsString("api-key"), JsString("s3cret"), JsString("X-Custom-Key")),
    AuthObject(JsString("api-key"), JsString("s3cret"), JsString("Host")),
    AuthObject(JsString("api-key"), JsString("s3cret"), JsString("User-Agent")),
    AuthObject(JsString("oauth"), JsString("s3cret"), JsUndefined) }

\* The payloads of the relay calls: every URL of the model, and for the
\* public name some auths and one variation of method, body and timeout.
Payloads ==
  {Payload(u) : u \in {UrlA, UrlPublicLiteral, UrlFtp, NotAUrl, JsUndefined}
                      \cup BlockedHostUrls \cup PrivateLiteralUrls}
  \cup {[Payload(UrlA) EXCEPT !.auth = a] : a \in RelayAuths}
  \cup {[Payload(UrlA) EXCEPT !.method = JsString("post"), !.body = JsString("{}")],
        [Payload(UrlA) EXCEPT !.body = JsString("{}")],
        [Payload(UrlA) EXCEPT !.method = JsString("invalid")],
        [Payload(UrlA) EXCEPT !.timeout = JsNumber(5000)],
        [Payload(UrlA) EXCEPT !.timeout = JsNumber(60000)]}
  \cup {JsNull}

GoodHeaders ==
  [contentType |-> "application/json", origin |-> baseUrlOrigin, referer |-> "",
   contentLength |-> <<"1", "0">>]

\* Header sets that differ from the good one.
HeaderVariants ==
  [contentType : {"", "text/plain", "application/json; charset=utf-8"},
   origin : {baseUrlOrigin}, referer : {""}, contentLength : {<<"1", "0">>}]
  \cup
  [contentType : {"application/json"},
   origin : {"", baseUrlOrigin, "http://evil.example"},
   referer : {"", "http://localhost:3000/p/demo", "http://evil.example/p/demo", "nonsense"},
   contentLength : {<<>>, <<"1", "0">>, <<"5", "2", "4", "2", "8", "8", "1">>}]
  \cup
  [contentType : {"text/plain"}, origin : {"", "http://evil.example"}, referer : {""},
   contentLength : {<<"1", "0">>}]

Request(headers, json) ==
  [contentType |-> headers.contentType, origin |-> headers.origin,
   referer |-> headers.referer, contentLength |-> headers.contentLength, json |-> json]

\* The requests of the model: every payload under good headers, and every
\* header variant with a payload that is rejected at once or is not JSON.
Requests ==
  {Request(GoodHeaders, j) : j \in Payloads \cup {InvalidJson}}
  \cup {Request(hd, j) : hd \in HeaderVariants,
                         j \in {Payload(UrlString("http:", Loopback4, "/test")), InvalidJson}}

NoRequest == Request([contentType |-> "", origin |-> "", referer |-> "",
                      contentLength |-> <<>>], InvalidJson)

\* The allowlists a process can be configured with.
AllowlistConfigs == {<<>>, <<HostA>>}

(***************************************************************************)
(* Specification                                                          *)
(***************************************************************************)

\* The handler before a request arrived.
HandlerIdle ==
  /\ req = NoRequest
  /\ reply = NoReply
  /\ proxyReq = Payload(NoUrl)
  /\ stage = "initial"
  /\ validating = NoUrl
  /\ outgoingHeaders = [n \in {} |-> ""]
  /\ method = ""
  /\ timeout = 0
  /\ currentUrl = NoUrl
  /\ redirectCount = 0
  /\ response = NoResponse
  /\ timer = "none"
  /\ aborted = FALSE
  /\ chunks = <<>>
  /\ totalSize = 0
  /\ readPos = 0
  /\ readerCancelled = FALSE
  /\ fetches = <<>>
  /\ validations = {}
  /\ armCount = 0
  /\ lookups = <<>>
  /\ elapsedAt = "never"

\* No request has reached a limiter.
LimiterIdle ==
  /\ proxyRateLimitStore = <<>>
  /\ rateLimitStore = <<>>
  /\ now = 1000
  /\ served = <<>>
  /\ running = 0

\* The classifier is not run on its own.
ClassifierIdle ==
  /\ address = <<>>
  /\ verdict = "none"

\* An empty database and no request for a page yet.
NoGet == [status |-> 0]

PagesIdle ==
  /\ db = <<>>
  /\ writes = <<>>
  /\ posts = <<>>
  /\ lastGet = NoGet

Init ==
  /\ proxyAllowedDomains \in AllowlistConfigs
  /\ pc = "idle"
  /\ HandlerIdle
  /\ payload = JsNull
  /\ validationError = NoValidationError
  /\ LimiterIdle
  /\ ClassifierIdle
  /\ PagesIdle

\* A request arrives and the handler runs to await c.req.json().
Arrives(r) ==
  /\ pc = "idle"
  /\ req' = r
  /\ Becomes(OnRequest(Handler, r))
  /\ UNCHANGED <<fixedVars, elapsedAt>>

Receive == \E r \in Requests : Arrives(r)

\* c.req.json() settles and the handler runs to its next await.
ParseBody ==
  /\ pc = "json"
  /\ Becomes(OnBody(Handler, req.json, proxyAllowedDomains))
  /\ UNCHANGED <<fixedVars, req, elapsedAt>>

\* A resolver that takes the last address of an answer.
addressLast(answer) == answer.addresses[Len(answer.addresses)]

\* ip = addresses[0]
address0(answer) == answer.addresses[1]

\* The handler after a DNS query of the pending resolveAndValidate settled.
Looked(h, record, answer) ==
  [h EXCEPT !.lookups = Append(@, [record |-> record,
                                   hostname |-> h.validating.hostname,
                                   answer |-> answer])]

\* dns.resolve4 settles.
Resolve4Settles ==
  /\ pc = "dns4"
  /\ \E answer \in Dns4Answers :
       IF DnsFailed(answer)
       THEN Becomes([Looked(Handler, "A", answer) EXCEPT !.pc = "dns6"])
       ELSE Becomes(Validated(Looked(Handler, "A", answer), validating, stage,
                              ValidateResolvedIP(validating.hostname, address0(answer)),
                              proxyAllowedDomains))
  /\ UNCHANGED <<fixedVars, req, elapsedAt>>

\* dns.resolve6 settles.
Resolve6Settles ==
  /\ pc = "dns6"
  /\ \E answer \in Dns6Answers :
       Becomes(Validated(Looked(Handler, "AAAA", answer), validating, stage,
                         IF DnsFailed(answer)
                         THEN Rejected(MsgDnsFailed, validating.hostname, <<>>)
                         ELSE ValidateResolvedIP(validating.hostname, address0(answer)),
                         proxyAllowedDomains))
  /\ UNCHANGED <<fixedVars, req, elapsedAt>>

\* fetch resolves with the response resp and the handler runs to its next
\* await.
Responds(resp) ==
  /\ pc = "fetch"
  /\ ~aborted
  /\ Becomes(OnResponse(Handler, resp, proxyAllowedDomains))
  /\ UNCHANGED <<fixedVars, req, elapsedAt>>

\* fetch resolves with the upstream's response.
FetchResponds == \E resp \in Responses : Responds(resp)

\* fetch rejects with a network error.
FetchFails ==
  /\ pc = "fetch"
  /\ ~aborted
  /\ Becomes(CatchFetchError(Handler, FALSE, "fetch failed"))
  /\ UNCHANGED <<fixedVars, req, elapsedAt>>

\* fetch rejects with the AbortError of the aborted signal.
FetchAborted ==
  /\ pc = "fetch"
  /\ aborted
  /\ Becomes(CatchFetchError(Handler, TRUE, "This operation was aborted"))
  /\ UNCHANGED <<fixedVars, req, elapsedAt>>

\* reader.read() resolves with the next chunk.
ReadChunk ==
  /\ pc = "read"
  /\ readPos < Len(response.body)
  /\ Becomes(OnChunk(Handler, response.body[readPos + 1]))
  /\ UNCHANGED <<fixedVars, req, elapsedAt>>

\* reader.read() resolves with done.
ReadDone ==
  /\ pc = "read"
  /\ readPos = Len(response.body)
  /\ Becomes(OnDone(Handler))
  /\ UNCHANGED <<fixedVars, req, elapsedAt>>

\* reader.read() rejects: the connection broke while the body was streamed.
ReadFails ==
  /\ pc = "read"
  /\ Becomes(ReplyError(Handler, 502, "terminated"))
  /\ UNCHANGED <<fixedVars, req, elapsedAt>>

\* The delay of the deadline elapses while the call is running: the timer's
\* callback runs controller.abort(), unless the timer was cleared.
DeadlineElapses ==
  /\ timer # "none"
  /\ elapsedAt = "never"
  /\ pc # "done"
  /\ elapsedAt' = pc
  /\ timer' = IF timer = "armed" THEN "fired" ELSE timer
  /\ aborted' = (aborted \/ timer = "armed")
  /\ UNCHANGED <<fixedVars, req, pc, reply, proxyReq, stage, validating,
                 outgoingHeaders, method, timeout, currentUrl, redirectCount, response,
                 chunks, totalSize, readPos, readerCancelled, fetches, validations,
                 armCount, lookups>>

Next ==
  \/ Receive
  \/ ParseBody
  \/ Resolve4Settles
  \/ Resolve6Settles
  \/ FetchResponds
  \/ FetchFails
  \/ FetchAborted
  \/ ReadChunk
  \/ ReadDone
  \/ ReadFails
  \/ DeadlineElapses

Spec == Init /\ [][Next]_vars

\* The awaits of the handler settle: the body arrives, the resolver answers or
\* gives up, fetch resolves or rejects, the stream delivers, ends or fails.
Settles ==
  \/ ParseBody
  \/ Resolve4Settles
  \/ Resolve6Settles
  \/ FetchResponds
  \/ FetchFails
  \/ FetchAborted
  \/ ReadChunk
  \/ ReadDone
  \/ ReadFails

\* The requests of the calls followed to their end: a relayed URL, a literal
\* address, bodies that are rejected, and every combination of headers.
LiveRequests ==
  {Request(GoodHeaders, j) :
     j \in {Payload(UrlA), Payload(UrlPublicLiteral), InvalidJson, JsNull}}
  \cup {Request(hd, InvalidJson) : hd \in HeaderVariants}

LiveReceive == \E r \in LiveRequests : Arrives(r)

LiveNext == LiveReceive \/ Settles \/ DeadlineElapses

\* The handler for the calls followed to their end.
LiveSpec == Init /\ [][LiveNext]_vars

\* The handler took a step: each settled await changes where the handler is,
\* what the stream delivered or what was sent or looked up.
HandlerMoves == <<pc, readPos, lookups, fetches>>' # <<pc, readPos, lookups, fetches>>

\* The event loop runs every settled await, and the runtime settles every
\* await: infinitely often the handler is not waiting, or it takes a step.
EventLoopFair == []<>(pc \in {"idle", "done"}) \/ []<><<HandlerMoves>>_vars

(***************************************************************************)
(* The redirect loop under allowlists: calls to a domain, a subdomain of   *)
(* it and a name that only ends with its letters, redirected among them   *)
(* or answered with a final response of any status.                       *)
(***************************************************************************)

\* The allowlists: none, and a list of two domains, one of them in capitals.
AllowlistDomains == {<<>>, <<HostB, HostAUpper>>}

RedirectLoopUrls == {UrlA, UrlB, UrlSub, UrlLookalike}

RedirectLoopRequests == {Request(GoodHeaders, Payload(u)) : u \in RedirectLoopUrls}

\* The upstream redirects to one of the names or to a path of its own, or
\* answers with a response that has no body: one with a redirect status and
\* no Location, or one with another status, with or without a Location.
RedirectLoopResponses ==
  [status : {301, 308},
   location : {Absolute(UrlSub), Absolute(UrlLookalike), Relative("/next")},
   contentLength : {<<>>}, headers : {NoHeaders}, hasBody : {FALSE}, body : {<<>>}]
  \cup
  [status : {301, 302, 303, 307, 308}, location : {NoLocation},
   contentLength : {<<>>}, headers : {NoHeaders}, hasBody : {FALSE}, body : {<<>>}]
  \cup
  [status : {200, 201, 300, 304, 305, 306, 309, 404},
   location : {NoLocation, Absolute(UrlSub)},
   contentLength : {<<>>}, headers : {NoHeaders}, hasBody : {FALSE}, body : {<<>>}]

RedirectLoopInit ==
  /\ proxyAllowedDomains \in AllowlistDomains
  /\ pc = "idle"
  /\ HandlerIdle
  /\ payload = JsNull
  /\ validationError = NoValidationError
  /\ LimiterIdle
  /\ ClassifierIdle
  /\ PagesIdle

RedirectLoopReceive == \E r \in RedirectLoopRequests : Arrives(r)

RedirectLoopResponds == \E resp \in RedirectLoopResponses : Responds(resp)

RedirectLoopNext ==
  \/ RedirectLoopReceive
  \/ ParseBody
  \/ Resolve4Settles
  \/ Resolve6Settles
  \/ RedirectLoopResponds

RedirectLoopSpec == RedirectLoopInit /\ [][RedirectLoopNext]_vars

(***************************************************************************)
(* The validator on its own: validateProxyRequest applied to one payload. *)
(***************************************************************************)

ValidatorInit ==
  /\ proxyAllowedDomains = <<>>
  /\ pc = "validate"
  /\ HandlerIdle
  /\ payload \in ValidatorPayloads
  /\ validationError = NoValidationError
  /\ LimiterIdle
  /\ ClassifierIdle
  /\ PagesIdle

\* validateProxyRequest(payload, config.proxyTimeoutMs) returns.
Validate ==
  /\ pc = "validate"
  /\ pc' = "validated"
  /\ validationError' = validateProxyRequest(payload, proxyTimeoutMs)
  /\ UNCHANGED <<proxyAllowedDomains, payload, req, reply, proxyReq, stage, validating,
                 outgoingHeaders, method, timeout, currentUrl, redirectCount, response,
                 timer, aborted, chunks, totalSize, readPos, readerCancelled, fetches,
                 validations, armCount, lookups, elapsedAt, limiterVars,
                 classifierVars, pagesVars>>

ValidatorSpec == ValidatorInit /\ [][Validate]_vars

(***************************************************************************)
(* Admission Gate (middleware/proxyRateLimit and middleware/rateLimit).    *)
(* Each limiter keeps a Map from caller key to {count, resetAt}; a request *)
(* runs the limiter from its start to `await next()` in one step, and a    *)
(* timer sweeps each Map.                                                  *)
(***************************************************************************)

\* config.proxyRateLimitWindowMs
proxyRateLimitWindowMs == 60000

\* config.proxyRateLimitMax (PROXY_RATE_LIMIT_MAX=1)
proxyRateLimitMax == 1

\* config.rateLimitWindowMs
rateLimitWindowMs == 60000

\* config.rateLimitMaxRequests (RATE_LIMIT_MAX_REQUESTS=2)
rateLimitMaxRequests == 2

\* Math.ceil(x / 1000) of an integer.
CeilSeconds(x) == -((-x) \div 1000)

\* String.prototype.trim, for the space character.
RECURSIVE Trim(_)
Trim(s) ==
  IF s = <<>> THEN s
  ELSE IF Head(s) = " " THEN Trim(Tail(s))
  ELSE IF s[Len(s)] = " " THEN Trim(SubSeq(s, 1, Len(s) - 1))
  ELSE s

Unknown == <<"u", "n", "k", "n", "o", "w", "n">>

\* The caller's address as the proxy headers give it.
getClientIp(headers) ==
  IF headers.forwarded # <<>> THEN Trim(Split(headers.forwarded, <<",">>)[1])
  ELSE IF headers.realIp # <<>> THEN headers.realIp
  ELSE Unknown

\* `proxy:${ip}`
ProxyKey(ip) == <<"p", "r", "o", "x", "y", ":">> \o ip

\* Map.prototype.set
MapSet(store, key, entry) ==
  [k \in DOMAIN store \cup {key} |-> IF k = key THEN entry ELSE store[k]]

\* Map.prototype.delete of every key of a set.
MapDelete(store, keys) == [k \in DOMAIN store \ keys |-> store[k]]

\* An entry update that starts every request's count from 1.
TouchWithoutIncrement(store, key, t, windowMs) ==
  MapSet(store, key,
         IF key \notin DOMAIN store \/ store[key].resetAt < t
         THEN [count |-> 1, resetAt |-> t + windowMs]
         ELSE [store[key] EXCEPT !.count = 1])

\* An entry update that moves the end of the window with every request.
TouchSliding(store, key, t, windowMs) ==
  IF key \notin DOMAIN store \/ store[key].resetAt < t
  THEN MapSet(store, key, [count |-> 1, resetAt |-> t + windowMs])
  ELSE [store EXCEPT ![key] = [count |-> @.count + 1, resetAt |-> t + windowMs]]

\* The limiter's read-modify-write of its Map: a new window for a key that
\* has no entry or whose entry has expired, else one more request counted.
Touch(store, key, t, windowMs) ==
  IF key \notin DOMAIN store \/ store[key].resetAt < t
  THEN MapSet(store, key, [count |-> 1, resetAt |-> t + windowMs])
  ELSE [store EXCEPT ![key].count = @ + 1]

\* The X-RateLimit-* headers of every reply.
RateLimitHeaders(entry, maxRequests) ==
  [n \in {"X-RateLimit-Limit", "X-RateLimit-Remaining", "X-RateLimit-Reset"} |->
     CASE n = "X-RateLimit-Limit" -> DecimalString(maxRequests)
       [] n = "X-RateLimit-Remaining" ->
            DecimalString(IF maxRequests - entry.count > 0
                          THEN maxRequests - entry.count ELSE 0)
       [] n = "X-RateLimit-Reset" -> DecimalString(CeilSeconds(entry.resetAt))]

MsgTooManyRequests == "Too many requests. Please try again later."

\* A decision that lets one request too many through.
DecideOffByOne(entry, t, maxRequests) ==
  IF entry.count > maxRequests + 1
  THEN [status |-> 429, error |-> MsgTooManyRequests, next |-> FALSE,
        headers |-> SetHeader(RateLimitHeaders(entry, maxRequests), "Retry-After",
                              DecimalString(CeilSeconds(entry.resetAt - t)))]
  ELSE [status |-> 0, error |-> "", next |-> TRUE,
        headers |-> RateLimitHeaders(entry, maxRequests)]

\* The limiter after its Map update: the headers it sets, and either the 429
\* reply or the call of next().
Decide(entry, t, maxRequests) ==
  IF entry.count > maxRequests
  THEN [status |-> 429, error |-> MsgTooManyRequests, next |-> FALSE,
        headers |-> SetHeader(RateLimitHeaders(entry, maxRequests), "Retry-After",
                              DecimalString(CeilSeconds(entry.resetAt - t)))]
  ELSE [status |-> 0, error |-> "", next |-> TRUE,
        headers |-> RateLimitHeaders(entry, maxRequests)]

\* The history record of one request.
Served(limiter, key, t, decision) ==
  [limiter |-> limiter, key |-> key, at |-> t, status |-> decision.status,
   error |-> decision.error, next |-> decision.next, headers |-> decision.headers]

\* A sweep that also deletes an entry whose window ends at this instant.
ExpiredKeysInclusive(store, t) == {k \in DOMAIN store : store[k].resetAt <= t}

\* The keys the sweep deletes.
ExpiredKeys(store, t) == {k \in DOMAIN store : store[k].resetAt < t}

\* The callback of setInterval.
Sweep(store, t) == MapDelete(store, ExpiredKeys(store, t))

\* The number of requests of a behaviour.
MaxArrivals == 3

\* The instants at which something happens.
Instants == {1000, 61000, 61001}

Forwarded == <<"1", ".", "1", ".", "1", ".", "1", ",", " ", "9", ".", "9", ".", "9", ".", "9">>

RealIp == <<"1", ".", "1", ".", "1", ".", "1">>

\* The x-forwarded-for and x-real-ip headers of the requests.
CallerHeaders == [forwarded : {<<>>, Forwarded}, realIp : {<<>>, RealIp}]

handlerVars ==
  <<proxyAllowedDomains, req, pc, reply, proxyReq, stage, validating, outgoingHeaders,
    method, timeout, currentUrl, redirectCount, response, timer, aborted, chunks,
    totalSize, readPos, readerCancelled, fetches, validations, armCount, lookups,
    elapsedAt, payload, validationError>>

LimiterInit ==
  /\ proxyAllowedDomains = <<>>
  /\ pc = "idle"
  /\ HandlerIdle
  /\ payload = JsNull
  /\ validationError = NoValidationError
  /\ LimiterIdle
  /\ ClassifierIdle
  /\ PagesIdle

\* The history and the set of running handlers after a request was decided.
Record(limiter, key, decision) ==
  /\ served' = Append(served, Served(limiter, key, now, decision))
  /\ running' = IF decision.next THEN running + 1 ELSE running

\* proxyRateLimit from its Map lookup to `await next()` or the 429 reply.
proxyRateLimit(key) ==
  /\ proxyRateLimitStore' = Touch(proxyRateLimitStore, key, now, proxyRateLimitWindowMs)
  /\ Record("proxyRateLimit", key,
            Decide(proxyRateLimitStore'[key], now, proxyRateLimitMax))

\* rateLimit from its Map lookup to `await next()` or the 429 reply.
rateLimit(key) ==
  /\ rateLimitStore' = Touch(rateLimitStore, key, now, rateLimitWindowMs)
  /\ Record("rateLimit", key, Decide(rateLimitStore'[key], now, rateLimitMaxRequests))

\* A request for the relay route passes through proxyRateLimit.
ProxyRateLimit ==
  /\ Len(served) < MaxArrivals
  /\ \E headers \in CallerHeaders : proxyRateLimit(ProxyKey(getClientIp(headers)))
  /\ UNCHANGED <<rateLimitStore, now, handlerVars, classifierVars, pagesVars>>

\* A request for another route passes through rateLimit.
RateLimit ==
  /\ Len(served) < MaxArrivals
  /\ \E headers \in CallerHeaders : rateLimit(getClientIp(headers))
  /\ UNCHANGED <<proxyRateLimitStore, now, handlerVars, classifierVars, pagesVars>>

\* next() returns: the route handler of an admitted request has replied.
HandlerReturns ==
  /\ running > 0
  /\ running' = running - 1
  /\ UNCHANGED <<proxyRateLimitStore, rateLimitStore, now, served, handlerVars,
                 classifierVars, pagesVars>>

\* The interval timer of proxyRateLimit fires.
SweepProxyRateLimit ==
  /\ proxyRateLimitStore' = Sweep(proxyRateLimitStore, now)
  /\ UNCHANGED <<rateLimitStore, now, served, running, handlerVars, classifierVars, pagesVars>>

\* The interval timer of rateLimit fires.
SweepRateLimit ==
  /\ rateLimitStore' = Sweep(rateLimitStore, now)
  /\ UNCHANGED <<proxyRateLimitStore, now, served, running, handlerVars,
                 classifierVars, pagesVars>>

\* Time passes.
Tick ==
  /\ \E t \in Instants : t > now /\ now' = t
  /\ UNCHANGED <<proxyRateLimitStore, rateLimitStore, served, running, handlerVars,
                 classifierVars, pagesVars>>

LimiterNext ==
  \/ ProxyRateLimit
  \/ RateLimit
  \/ HandlerReturns
  \/ SweepProxyRateLimit
  \/ SweepRateLimit
  \/ Tick

LimiterSpec == LimiterInit /\ [][LimiterNext]_vars

(***************************************************************************)
(* The classifier on its own: isPrivateIP applied to one string.           *)
(***************************************************************************)

\* a.b.c.d in decimal.
QuadText(a, b, c, d) ==
  Join(<<DecimalString(a), DecimalString(b), DecimalString(c), DecimalString(d)>>,
       <<".">>)

\* The second octets at the edges of the ranges.
SecondOctets == {0, 15, 16, 31, 32, 168, 254, 255}

\* The dotted quads the classifier is applied to: every first octet with
\* every second octet of SecondOctets.
QuadInputs ==
  {QuadText(a, b, 0, 1) : a \in 0..255, b \in SecondOctets}
    \cup {QuadText(a, b, 255, 255) : a \in {0, 8, 10, 127, 169, 172, 192, 255},
                                     b \in SecondOctets}
    \cup {MetadataAddress}

\* The IPv4 ranges of the classifier, by the first two octets.
InPrivateRange(a, b) ==
  \/ a = 127
  \/ a = 10
  \/ a = 172 /\ b \in 16..31
  \/ a = 192 /\ b = 168
  \/ a = 169 /\ b = 254
  \/ a = 0

MappedFirstOctets == {0, 1, 8, 10, 127, 169, 172, 192, 255}

MappedSecondOctets == {0, 16, 31, 32, 168, 254}

MappedTails == {<<0, 1>>, <<169, 254>>}

MappedForms ==
  {"dotted", "dotted upper case", "hex", "hex padded", "expanded", "expanded padded"}

\* The two hexadecimal segments of a.b.c.d, without leading zeros.
HexSegments(a, b, c, d) == HexString(a * 256 + b) \o <<":">> \o HexString(c * 256 + d)

\* The same, each of four digits.
PaddedSegments(a, b, c, d) ==
  PadStart4(HexString(a * 256 + b)) \o <<":">> \o PadStart4(HexString(c * 256 + d))

\* The IPv4-mapped address of a.b.c.d in one of its written forms.
MappedText(form, a, b, c, d) ==
  CASE form = "dotted" -> <<":", ":", "f", "f", "f", "f", ":">> \o QuadText(a, b, c, d)
    [] form = "dotted upper case" -> <<":", ":", "F", "F", "F", "F", ":">> \o QuadText(a, b, c, d)
    [] form = "hex" -> <<":", ":", "f", "f", "f", "f", ":">> \o HexSegments(a, b, c, d)
    [] form = "hex padded" -> <<":", ":", "F", "F", "F", "F", ":">> \o PaddedSegments(a, b, c, d)
    [] form = "expanded" ->
         <<"0", ":", "0", ":", "0", ":", "0", ":", "0", ":", "f", "f", "f", "f", ":">>
           \o HexSegments(a, b, c, d)
    [] form = "expanded padded" ->
         <<"0", "0", "0", "0", ":", "0", "0", "0", "0", ":", "0", "0", "0", "0", ":", "0", "0", "0", "0", ":", "0", "0", "0", "0", ":", "f", "f", "f", "f", ":">>
           \o PaddedSegments(a, b, c, d)

\* The IPv4-mapped addresses the classifier is applied to, each with whether
\* the embedded IPv4 address lies in a reserved range.
MappedCases ==
  {[text |-> MappedText(form, a, b, t[1], t[2]), private |-> InPrivateRange(a, b)] :
     form \in MappedForms, a \in MappedFirstOctets, b \in MappedSecondOctets,
     t \in MappedTails}

\* ::1 as written.
LoopbackTexts ==
  {<<":", ":", "1">>,
   <<"0", ":", "0", ":", "0", ":", "0", ":", "0", ":", "0", ":", "0", ":", "1">>,
   <<"0", "0", "0", "0", ":", "0", "0", "0", "0", ":", "0", "0", "0", "0", ":", "0", "0", "0", "0", ":", "0", "0", "0", "0", ":", "0", "0", "0", "0", ":", "0", "0", "0", "0", ":", "0", "0", "0", "1">>}

\* First segments in fc00::/7 and in fe80::/10.
ReservedFirstSegments ==
  {<<"f", "c", "0", "0">>,
   <<"f", "c", "0", "1">>,
   <<"f", "c", "f", "f">>,
   <<"f", "d", "0", "0">>,
   <<"F", "D", "1", "2">>,
   <<"f", "d", "f", "f">>,
   <<"f", "e", "8", "0">>,
   <<"F", "E", "8", "0">>,
   <<"f", "e", "8", "1">>,
   <<"f", "e", "b", "0">>,
   <<"f", "e", "b", "f">>}

\* What follows the first segment.
SegmentTails ==
  {<<":", ":">>,
   <<":", ":", "1">>,
   <<":", "0", ":", "0", ":", "0", ":", "0", ":", "0", ":", "0", ":", "1">>,
   <<":", "1", ":", "2", ":", "3", ":", "4", ":", "5", ":", "6", ":", "7">>,
   <<":", "f", "f", "f", "f", ":", ":", "1">>}

\* The addresses in fc00::/7 and fe80::/10 the classifier is applied to.
ReservedTexts == {seg \o tail : seg \in ReservedFirstSegments, tail \in SegmentTails}

\* Global IPv6 addresses.
GlobalTexts ==
  {<<"2", "0", "0", "1", ":", "d", "b", "8", ":", ":", "1">>,
   <<"2", "0", "0", "1", ":", "4", "8", "6", "0", ":", ":", "8", "8", "8", "8">>,
   <<"f", "e", "c", "0", ":", ":">>,
   <<"f", "b", "f", "f", ":", ":", "1">>,
   <<"f", "f", "0", "2", ":", ":", "1">>}

\* Strings that are no IPv4 and no IPv6 address: a wrong number of parts or
\* segments, a part out of range, an empty part, the empty string, parts that
\* are no decimal or hexadecimal numerals.
MalformedInputs ==
  {<<>>,
   <<"8", ".", "8", ".", "8", ".">>,
   <<"1", "e", "2", ".", "8", ".", "8", ".", "1">>,
   <<"1", ".", "2", ".", "3">>,
   <<"1", ".", "2", ".", "3", ".", "4", ".", "5">>,
   <<"2", "5", "6", ".", "1", ".", "1", ".", "1">>,
   <<"a", ".", "b", ".", "c", ".", "d">>,
   <<"c", "a", "f", "e">>,
   <<"1", ":", "2">>,
   <<"g", "g", "g", "g", ":", ":", "1">>,
   <<"1", "2", "3", "4", "5", ":", ":", "1">>,
   <<"1", ":", "2", ":", "3", ":", "4", ":", "5", ":", "6", ":", "7", ":", "8", ":", "9">>,
   <<":", ":", "f", "f", "f", "f", ":", "9", "9", "9", ".", "1", ".", "1", ".", "1">>,
   <<":", ":", "f", "f", "f", "f", ":", "0", ":", "1", "2", "3", "4", "5", "6", "7", "8", "9">>,
   <<"1", ":", "2", ":", "3", ":", "4", ":", "5", ":", "6", ":", "7", ":", "8", ":", ":", "9">>}

ClassifierInputs ==
  QuadInputs \cup {c.text : c \in MappedCases} \cup LoopbackTexts \cup ReservedTexts
    \cup GlobalTexts \cup MalformedInputs

\* What a call isPrivateIP(ip) does: it returns true or false, or it throws.
Classified(ip) ==
  IF isPrivateIPThrows(ip)
  THEN IF normalizeIPv6Throws(ip) THEN "RangeError" ELSE "TypeError"
  ELSE IF isPrivateIP(ip) THEN "private" ELSE "public"

ClassifierInit ==
  /\ proxyAllowedDomains = <<>>
  /\ pc = "idle"
  /\ HandlerIdle
  /\ payload = JsNull
  /\ validationError = NoValidationError
  /\ LimiterIdle
  /\ PagesIdle
  /\ address \in ClassifierInputs
  /\ verdict = "pending"

\* isPrivateIP(address) returns or throws.
Classify ==
  /\ verdict = "pending"
  /\ verdict' = Classified(address)
  /\ UNCHANGED <<address, handlerVars, limiterVars, pagesVars>>

ClassifierSpec == ClassifierInit /\ [][Classify]_vars

(***************************************************************************)
(* Page routes (routes/pages, routes/render, storage/db, utils/etag).      *)
(* POST /v1/pages/:id runs to `await c.req.json()`, from there to          *)
(* `await db.put()`, and returns once the put is committed; a GET is one   *)
(* step. LMDB commits queued puts in order, and a get reads what is        *)
(* committed.                                                              *)
(***************************************************************************)

\* config.maxIdLength (MAX_ID_LENGTH=3)
maxIdLength == 3

\* config.maxPayloadSize (MAX_PAYLOAD_SIZE=4)
maxPayloadSize == 4

\* The characters ID_PATTERN admits, among those of the model.
IdPatternChars == {"a", "b", "Z", "0", "9", ".", "_", "-"}

\* ID_PATTERN.test(id)
IdPatternTest(id) == id # <<>> /\ \A i \in 1..Len(id) : id[i] \in IdPatternChars

MsgIdRequired == "Page ID is required"

MsgIdTooLong == "Page ID must be 3 characters or less"

MsgIdPattern ==
  "Page ID can only contain letters, numbers, dots, underscores, and hyphens"

\* validateId: the message of the error, "" for null.
validateId(id) ==
  IF id = <<>> THEN MsgIdRequired
  ELSE IF Len(id) > maxIdLength THEN MsgIdTooLong
  ELSE IF ~IdPatternTest(id) THEN MsgIdPattern
  ELSE ""

\* A string of a page body, given by its characters.
HtmlString(chars) == [type |-> "string", chars |-> chars]

\* The body of a POST: a JSON object with the four fields of CreatePageBody.
PageBody(html, encoding, content_type, title) ==
  [type |-> "object", html |-> html, encoding |-> encoding,
   content_type |-> content_type, title |-> title]

\* Buffer.from(html, 'base64') for the strings of the model: YQ== is a, Yg== is
\* b, and a string without base64 characters decodes to nothing.
Base64Decode(chars) ==
  CASE chars = <<"Y", "Q", "=", "=">> -> <<"a">>
    [] chars = <<"Y", "g", "=", "=">> -> <<"b">>
    [] OTHER -> <<>>

\* The size validatePageBody computes for the html of a body.
HtmlSize(data) ==
  IF data.encoding = JsString("base64")
  THEN Len(Base64Decode(data.html.chars))
  ELSE Len(data.html.chars)

MsgBodyObject == "Request body must be a JSON object"

MsgHtmlRequired == "html field is required and must be a string"

MsgEncoding == "encoding must be \"utf-8\" or \"base64\""

MsgContentType == "content_type must be a string"

MsgTitle == "title must be a string"

MsgHtmlSize == "HTML content exceeds maximum size of 4 bytes"

\* validatePageBody: the message of the error, "" for null.
validatePageBody(body) ==
  IF body.type # "object" THEN MsgBodyObject
  ELSE IF body.html.type # "string" \/ body.html.chars = <<>> THEN MsgHtmlRequired
  ELSE IF /\ body.encoding # JsUndefined
          /\ body.encoding \notin {JsString("utf-8"), JsString("base64")}
  THEN MsgEncoding
  ELSE IF body.content_type # JsUndefined /\ body.content_type.type # "string"
  THEN MsgContentType
  ELSE IF body.title # JsUndefined /\ body.title.type # "string" THEN MsgTitle
  ELSE IF HtmlSize(body) > maxPayloadSize THEN MsgHtmlSize
  ELSE ""

\* decodeHtml(body.html, body.encoding)
decodeHtml(html, encoding) ==
  IF encoding = JsString("base64") THEN Base64Decode(html.chars) ELSE html.chars

Quote == "\""

\* The first characters of the SHA-256 digest of a content, in hexadecimal; the
\* contents of the model have distinct digests.
Digest(content) ==
  CASE content = <<"a">> -> <<"c", "a">>
    [] content = <<"b">> -> <<"3", "e">>
    [] content = <<>> -> <<"e", "3">>
    [] OTHER -> <<"f", "f">>

\* generateEtag: the digest between double quotes.
generateEtag(content) == <<Quote>> \o Digest(content) \o <<Quote>>

\* tags.includes(tag)
TagsInclude(tags, tag) == \E i \in 1..Len(tags) : tags[i] = tag

\* ifNoneMatch.split(',').map(t => t.trim())
Tags(ifNoneMatch) ==
  [i \in 1..Len(Split(ifNoneMatch, <<",">>)) |-> Trim(Split(ifNoneMatch, <<",">>)[i])]

\* A comparison of entity tags that knows no wildcard.
etagMatchesNoWildcard(ifNoneMatch, etag) ==
  IF ifNoneMatch = <<>> THEN FALSE ELSE TagsInclude(Tags(ifNoneMatch), etag)

\* etagMatches: an absent or empty header matches nothing.
etagMatches(ifNoneMatch, etag) ==
  IF ifNoneMatch = <<>>
  THEN FALSE
  ELSE TagsInclude(Tags(ifNoneMatch), <<"*">>) \/ TagsInclude(Tags(ifNoneMatch), etag)

\* getPage: db.get(id), undefined for an id without a page.
NoPage == [id |-> <<>>]

getPage(store, id) == IF id \in DOMAIN store THEN store[id] ELSE NoPage

\* The Page savePage builds; a put of a page for an id that holds one keeps
\* its created_at.
NewPage(store, id, data, etag, t) ==
  [id |-> id,
   html |-> data.html,
   encoding |-> IF data.encoding = JsUndefined THEN "utf-8" ELSE data.encoding.str,
   content_type |->
     IF data.content_type = JsUndefined \/ data.content_type.str = ""
     THEN "text/html; charset=utf-8"
     ELSE data.content_type.str,
   title |-> data.title,
   etag |-> etag,
   created_at |-> IF getPage(store, id) # NoPage THEN getPage(store, id).created_at ELSE t,
   updated_at |-> t]

\* A POST handler: where it is, what it was asked and what it replied.
PostHandler(id, body) ==
  [id |-> id, body |-> body, pc |-> "json", status |-> 0, error |-> "",
   etag |-> <<>>, page |-> NoPage]

\* return c.json({ error }, status)
PostError(p, status, error) == [p EXCEPT !.pc = "done", !.status = status, !.error = error]

MsgInvalidJson == "Invalid JSON body"

MsgTaken == "Page ID is already taken"

\* A handler without the check for a taken ID: it replaces the page.
AfterJsonReplacing(p, store, t) ==
  IF p.body = InvalidJson THEN PostError(p, 400, MsgInvalidJson)
  ELSE IF validatePageBody(p.body) # "" THEN PostError(p, 400, validatePageBody(p.body))
  ELSE [p EXCEPT
          !.pc = "put",
          !.page = NewPage(store, p.id,
                           [html |-> decodeHtml(p.body.html, p.body.encoding),
                            encoding |-> JsString("utf-8"),
                            content_type |-> p.body.content_type,
                            title |-> p.body.title],
                           generateEtag(decodeHtml(p.body.html, p.body.encoding)), t)]

\* The handler from the result of c.req.json() to `await db.put()`, or to its
\* reply.
AfterJson(p, store, t) ==
  IF p.body = InvalidJson THEN PostError(p, 400, MsgInvalidJson)
  ELSE IF validatePageBody(p.body) # "" THEN PostError(p, 400, validatePageBody(p.body))
  ELSE IF getPage(store, p.id) # NoPage THEN PostError(p, 409, MsgTaken)
  ELSE [p EXCEPT
          !.pc = "put",
          !.page = NewPage(store, p.id,
                           [html |-> decodeHtml(p.body.html, p.body.encoding),
                            encoding |-> JsString("utf-8"),
                            content_type |-> p.body.content_type,
                            title |-> p.body.title],
                           generateEtag(decodeHtml(p.body.html, p.body.encoding)), t)]

\* A reply after savePage that says 200 OK.
CreatedAsOk(p) == [p EXCEPT !.pc = "done", !.status = 200, !.etag = p.page.etag]

\* c.header('ETag', page.etag); return c.json(response, 201)
Created(p) == [p EXCEPT !.pc = "done", !.status = 201, !.etag = p.page.etag]

\* The reply of a GET: c.json({ error }, status), c.body(null, 304) or
\* c.body(page.html) with the headers of the route.
GetReply(route, id, ifNoneMatch, status, error, page) ==
  [route |-> route, id |-> id, ifNoneMatch |-> ifNoneMatch, status |-> status,
   error |-> error,
   hasBody |-> status = 200,
   body |-> IF status = 200 THEN page.html ELSE <<>>,
   etag |-> IF status = 200 THEN page.etag ELSE <<>>,
   contentType |->
     IF status # 200 THEN ""
     ELSE IF route = "raw" THEN "text/plain; charset=utf-8"
     ELSE page.content_type]

\* render.get('/:id') and render.get('/:id/raw')
render(store, route, id, ifNoneMatch) ==
  IF validateId(id) # "" THEN GetReply(route, id, ifNoneMatch, 400, validateId(id), NoPage)
  ELSE IF getPage(store, id) = NoPage
  THEN GetReply(route, id, ifNoneMatch, 404, "Page not found", NoPage)
  ELSE IF etagMatches(ifNoneMatch, getPage(store, id).etag)
  THEN GetReply(route, id, ifNoneMatch, 304, "", NoPage)
  ELSE GetReply(route, id, ifNoneMatch, 200, "", getPage(store, id))

\* The number of POSTs of a behaviour.
MaxPosts == 2

IdA == <<"a">>

IdB == <<"b">>

\* Ids that validateId rejects: a character outside ID_PATTERN, too long.
BadPatternId == <<"a", "!">>

TooLongId == <<"a", "a", "a", "a">>

GetIds == {IdA, IdB, TooLongId}

\* A POST: its id and its body.
PostRequest(id, body) == [id |-> id, body |-> body]

PageBodies ==
  { InvalidJson,
    PageBody(HtmlString(<<"a">>), JsUndefined, JsUndefined, JsUndefined),
    PageBody(HtmlString(<<"b">>), JsString("utf-8"), JsString("text/plain"), JsString("t")),
    PageBody(HtmlString(<<"Y", "Q", "=", "=">>), JsString("base64"), JsUndefined,
             JsUndefined),
    PageBody(HtmlString(<<"a", "a", "a", "a", "a">>), JsUndefined, JsUndefined,
             JsUndefined) }

\* The POSTs: every body for the id a, one for the id b and for each id that
\* is not valid.
PostRequests ==
  {PostRequest(IdA, body) : body \in PageBodies}
  \cup {PostRequest(id, PageBody(HtmlString(<<"b">>), JsUndefined, JsUndefined, JsUndefined)) :
          id \in {BadPatternId, IdB}}

\* If-None-Match headers: none, the wildcard, the entity tag of the content a,
\* a list of two tags, a weak tag.
IfNoneMatches ==
  { <<>>,
    <<"*">>,
    generateEtag(<<"a">>),
    generateEtag(<<"b">>) \o <<",", " ">> \o generateEtag(<<"a">>),
    <<"W", "/">> \o generateEtag(<<"a">>) }

PagesInit ==
  /\ proxyAllowedDomains = <<>>
  /\ pc = "idle"
  /\ HandlerIdle
  /\ payload = JsNull
  /\ validationError = NoValidationError
  /\ LimiterIdle
  /\ ClassifierIdle
  /\ PagesIdle

otherVars ==
  <<handlerVars, classifierVars, proxyRateLimitStore, rateLimitStore, served, running>>

\* POST /v1/pages/:id arrives and runs to `await c.req.json()`, or replies 400
\* for its id.
PostArrives ==
  /\ Len(posts) < MaxPosts
  /\ \E r \in PostRequests :
       posts' = Append(posts,
                       IF validateId(r.id) # ""
                       THEN PostError(PostHandler(r.id, r.body), 400, validateId(r.id))
                       ELSE PostHandler(r.id, r.body))
  /\ UNCHANGED <<db, writes, lastGet, now, otherVars>>

\* c.req.json() settles: the handler runs to `await db.put()`, which queues
\* the page, or to its reply. The clock has moved on.
PostParsed ==
  /\ \E i \in 1..Len(posts) :
       /\ posts[i].pc = "json"
       /\ posts' = [posts EXCEPT ![i] = AfterJson(@, db, now)]
       /\ writes' = IF posts'[i].pc = "put"
                    THEN Append(writes, [by |-> i, page |-> posts'[i].page])
                    ELSE writes
  /\ now' = now + 1
  /\ UNCHANGED <<db, lastGet, otherVars>>

\* LMDB commits the oldest queued put.
Commit ==
  /\ writes # <<>>
  /\ db' = MapSet(db, Head(writes).page.id, Head(writes).page)
  /\ writes' = Tail(writes)
  /\ UNCHANGED <<posts, lastGet, now, otherVars>>

\* The put of a handler is committed: savePage returns and the handler replies
\* 201 with the page's ETag.
PostReturns ==
  /\ \E i \in 1..Len(posts) :
       /\ posts[i].pc = "put"
       /\ \A k \in 1..Len(writes) : writes[k].by # i
       /\ posts' = [posts EXCEPT ![i] = Created(@)]
  /\ UNCHANGED <<db, writes, lastGet, now, otherVars>>

\* GET /p/:id or GET /p/:id/raw; a behaviour has one GET, at any moment.
Get ==
  /\ lastGet = NoGet
  /\ \E route \in {"view", "raw"}, id \in GetIds, ifNoneMatch \in IfNoneMatches :
       lastGet' = render(db, route, id, ifNoneMatch)
  /\ UNCHANGED <<db, writes, posts, now, otherVars>>

PagesNext == PostArrives \/ PostParsed \/ Commit \/ PostReturns \/ Get

PagesSpec == PagesInit /\ [][PagesNext]_vars

(***************************************************************************)
(* Properties                                                             *)
(***************************************************************************)

\* The addresses of the model that lie in no reserved range (8.8.8.8 and
\* 2001:db8::1); every other address of the model is loopback, private,
\* link-local or unique-local.
PublicAddresses == {Public4, Public6}

\* resolveAndValidate succeeded for url in this call, with a public address.
ValidatedPublic(url) ==
  \E v \in validations : v.url = url /\ v.ok /\ v.ip \in PublicAddresses

\* C1: every outbound request of a call, on the first hop and on every
\* redirect hop, goes to a URL that resolveAndValidate has accepted earlier in
\* the same call with a non-private address, that uses http or https, and
\* that passes the allowlist when one is configured.
C1_FetchOnlyValidated ==
  \A i \in 1..Len(fetches) :
    /\ ValidatedPublic(fetches[i].url)
    /\ fetches[i].url.protocol \in {"http:", "https:"}
    /\ AllowlistPasses(fetches[i].url, proxyAllowedDomains)

\* A redirect hop was fetched on another host than the first hop.
C1_Witness ==
  /\ Len(fetches) >= 2
  /\ fetches[2].url.hostname # fetches[1].url.hostname

\* The name of the header that carries the credentials of auth.
CredentialHeaderNames(auth) ==
  IF Falsy(auth) THEN {}
  ELSE IF auth.authType.str = "api-key"
  THEN {IF Falsy(auth.headerName) THEN "X-API-Key" ELSE auth.headerName.str}
  ELSE {"Authorization"}

\* C2: a request sent on a redirect hop to another host than that of the
\* request's own url carries no header holding the caller's credentials.
C2_NoCredentialsToOtherHost ==
  \A i \in 1..Len(fetches) :
    fetches[i].url.hostname # proxyReq.url.hostname
      => DOMAIN fetches[i].headers \cap CredentialHeaderNames(proxyReq.auth) = {}

\* The requests whose url names a private address literally.
PrivateLiteralPayloads == {Payload(u) : u \in PrivateLiteralUrls}

\* C3: a request that passed the Content-Type, origin and size checks, whose
\* payload is valid and whose url host is a literal private address (127.0.0.1,
\* 10.0.0.1, 192.168.1.1, 169.254.169.254, [::1]), is answered, under the empty
\* allowlist, 400 with the message 'URL resolves to a private/internal IP
\* address', and no outbound request is made.
C3_PrivateLiteralRejected ==
  (/\ pc \notin {"idle", "json"}
   /\ OnRequest(Handler, req).pc = "json"
   /\ req.json \in PrivateLiteralPayloads
   /\ validateProxyRequest(req.json, proxyTimeoutMs) = NoValidationError
   /\ proxyAllowedDomains = <<>>)
    => /\ pc = "done"
       /\ reply.status = 400
       /\ reply.error = MsgPrivate
       /\ fetches = <<>>

\* The call for http://192.168.1.1/api was answered under the empty allowlist.
C3_Witness ==
  /\ pc = "done"
  /\ req.json = Payload(UrlString("http:", Private192, "/api"))
  /\ OnRequest(Handler, req).pc = "json"
  /\ proxyAllowedDomains = <<>>
  /\ reply.status = 400

\* The messages resolveAndValidate can throw.
ResolveMessages ==
  {MsgInvalidUrl, MsgProtocol, MsgBlockedHost, MsgDnsFailed, MsgPrivate, MsgTypeError,
   MsgRangeError}

\* A step in which resolveAndValidate threw for a redirect target.
RedirectValidationFails ==
  \E v \in validations' \ validations : v.stage = "redirect" /\ ~v.ok

\* C4: when resolveAndValidate fails for the resolved Location of a redirect,
\* the call ends in that step with 400 and a message that begins 'Redirect
\* blocked: ' (with the private-address message when the target resolved to a
\* private address), and that step sends no request; a call that has recorded
\* such a failure is over.
C4_RedirectBlocked ==
  /\ [][RedirectValidationFails =>
          /\ fetches' = fetches
          /\ pc' = "done"
          /\ reply'.status = 400
          /\ reply'.error \in {"Redirect blocked: " \o m : m \in ResolveMessages}
          /\ \A v \in validations' \ validations :
               (v.ip # <<>> /\ v.ip \notin PublicAddresses)
                 => reply'.error = "Redirect blocked: " \o MsgPrivate]_vars
  /\ []((\E v \in validations : v.stage = "redirect" /\ ~v.ok) => pc = "done")

\* A public first hop redirected to a private address and the call was
\* answered with the blocked-redirect message.
C4_Witness ==
  /\ pc = "done"
  /\ Len(fetches) = 1
  /\ fetches[1].url = UrlA
  /\ reply.status = 400
  /\ reply.error = "Redirect blocked: " \o MsgPrivate

\* The message of the redirect limit.
TooManyRedirectsMessage ==
  "Too many redirects (max: " \o ToString(proxyMaxRedirects) \o ")"

\* C5: the call follows at most proxyMaxRedirects redirects. The redirect that
\* takes the count past proxyMaxRedirects ends the call in that step with 502
\* and 'Too many redirects (max: N)', without a request to its target; no
\* other call gets that reply.
C5_TooManyRedirects ==
  /\ [][redirectCount' > proxyMaxRedirects =>
          /\ fetches' = fetches
          /\ pc' = "done"
          /\ reply'.status = 502
          /\ reply'.error = TooManyRedirectsMessage]_vars
  /\ [](/\ Len(fetches) <= proxyMaxRedirects + 1
        /\ reply.error = TooManyRedirectsMessage
             <=> redirectCount > proxyMaxRedirects)

\* A chain of proxyMaxRedirects + 1 accepted redirects: every hop up to the
\* limit was fetched and the call was answered 502.
C5_Witness ==
  /\ pc = "done"
  /\ redirectCount = proxyMaxRedirects + 1
  /\ Len(fetches) = proxyMaxRedirects + 1
  /\ reply.status = 502

\* C6: when the delay of the deadline elapses while the body of the final
\* response is being read, the deadline fires and aborts the call, which then
\* ends with the timeout reply.
C6_DeadlineCoversBodyRead ==
  elapsedAt = "read"
    => /\ timer = "fired"
       /\ aborted
       /\ pc = "done" => reply.status = 504

\* C7: a call arms its deadline once, before its first fetch; the deadline is
\* live (armed or fired, never cleared and never armed again) while a fetch of
\* any hop or the validation of a redirect target is pending; and a call whose
\* deadline fired while a fetch was pending ends with 504 'Request timed out'.
C7_OneDeadlinePerCall ==
  /\ armCount <= 1
  /\ fetches # <<>> => armCount = 1
  /\ (pc = "fetch" \/ (pc \in {"dns4", "dns6"} /\ stage = "redirect"))
       => armCount = 1 /\ timer \in {"armed", "fired"}
  /\ elapsedAt = "fetch" => timer = "fired" /\ aborted
  /\ (elapsedAt = "fetch" /\ pc = "done")
       => reply.status = 504 /\ reply.error = "Request timed out"

\* The deadline fired while the fetch of a redirect hop was pending, and the
\* call was answered 504.
C7_Witness ==
  /\ elapsedAt = "fetch"
  /\ pc = "done"
  /\ redirectCount >= 1
  /\ Len(fetches) = redirectCount + 1
  /\ reply.status = 504

\* The number of bytes in a sequence of chunks.
RECURSIVE ByteLength(_)
ByteLength(cs) == IF cs = <<>> THEN 0 ELSE Len(cs[1]) + ByteLength(Tail(cs))

\* The response the loop ended with: no redirect that names a target.
IsFinalResponse(resp) ==
  /\ resp # NoResponse
  /\ ~(resp.status \in RedirectStatuses /\ resp.location.kind # "none")

\* C8: a final response that declares a Content-Length above
\* proxyMaxResponseSize is answered 502 'Response too large' with nothing read;
\* the running total counts exactly the bytes delivered, and once it exceeds
\* the cap the reader is cancelled and the call is over with 502 'Response too
\* large'; the chunks retained never hold more bytes than the cap.
C8_ResponseSizeCap ==
  /\ (/\ IsFinalResponse(response)
      /\ response.contentLength # <<>>
      /\ ParseInt10(response.contentLength) > proxyMaxResponseSize)
       => /\ pc = "done"
          /\ reply.status = 502
          /\ reply.error = "Response too large"
          /\ readPos = 0
          /\ chunks = <<>>
  /\ totalSize = ByteLength(SubSeq(response.body, 1, readPos))
  /\ totalSize > proxyMaxResponseSize
       => /\ pc = "done"
          /\ readerCancelled
          /\ reply.status = 502
          /\ reply.error = "Response too large"
  /\ readerCancelled => totalSize > proxyMaxResponseSize
  /\ ByteLength(chunks) <= proxyMaxResponseSize

\* A body went past the cap on its second chunk: the first chunk is retained,
\* the reader cancelled.
C8_Witness ==
  /\ pc = "done"
  /\ readerCancelled
  /\ Len(chunks) = 1
  /\ readPos = 2
  /\ totalSize > proxyMaxResponseSize

\* All the bytes of a body, in order.
RECURSIVE Flatten(_)
Flatten(cs) == IF cs = <<>> THEN <<>> ELSE cs[1] \o Flatten(Tail(cs))

\* The text of a whole body.
WholeText(body) == DecodeChunks(<<Flatten(body)>>, FALSE)

\* C9: a 200 reply is sent only when the stream of the final response has
\* reported done for the whole body (or the response has no body): it carries
\* the upstream status and the text of the entire upstream body. A call that
\* was cancelled for size, or whose deadline fired during a fetch, does not
\* reply 200, and a reply other than 200 carries no part of a response.
C9_NoPartialSuccess ==
  /\ reply.status = 200
       => /\ pc = "done"
          /\ IsFinalResponse(response)
          /\ ~readerCancelled
          /\ elapsedAt # "fetch"
          /\ totalSize <= proxyMaxResponseSize
          /\ reply.proxyResponse.status = response.status
          /\ response.hasBody
               => /\ readPos = Len(response.body)
                  /\ chunks = response.body
                  /\ reply.proxyResponse.body
                       = ParsedBody(response.headers, WholeText(response.body))
          /\ ~response.hasBody
               => reply.proxyResponse.body = ParsedBody(response.headers, <<>>)
  /\ reply.status # 200 => reply.proxyResponse = NoProxyResponse

\* A 200 reply for a body streamed in two chunks that split a two-byte
\* character.
C9_Witness ==
  /\ reply.status = 200
  /\ response.body = <<<<ByteLead>>, <<ByteCont>>>>
  /\ readPos = 2

\* The header names of the model that equal, case-insensitively, one of the
\* reserved names Host, Authorization, Content-Length and Transfer-Encoding.
ReservedHeaderNames == {"Host", "Authorization", "content-length", "Transfer-Encoding"}

\* body is valid but for its auth.headerName: it is an object that passes
\* every check before auth, with an api-key auth and non-empty credentials.
ValidUpToHeaderName(body) ==
  /\ body.type = "object"
  /\ validateProxyRequest([body EXCEPT !.auth = JsUndefined], proxyTimeoutMs)
       = NoValidationError
  /\ body.auth.type = "object"
  /\ body.auth.authType = JsString("api-key")
  /\ body.auth.credentials.type = "string"
  /\ body.auth.credentials.str # ""
  /\ body.auth.headerName.type = "string"

\* C10: validateProxyRequest rejects an api-key auth whose headerName is a
\* reserved header name, in any letter case, with field 'auth.headerName'.
C10_ReservedHeaderNameRejected ==
  (/\ pc = "validated"
   /\ ValidUpToHeaderName(payload)
   /\ payload.auth.headerName.str \in ReservedHeaderNames)
    => validationError.field = "auth.headerName"

\* The headers the relay sets for itself.
RelayHeaderNames == {"User-Agent", "Content-Type", "Accept"}

\* The header that auth asks for: its name and its value.
AuthHeader(auth) ==
  IF auth.authType.str = "bearer"
  THEN [name |-> "Authorization", value |-> "Bearer " \o auth.credentials.str]
  ELSE IF auth.authType.str = "basic"
  THEN [name |-> "Authorization", value |-> "Basic " \o auth.credentials.str]
  ELSE [name |-> IF Falsy(auth.headerName) THEN "X-API-Key" ELSE auth.headerName.str,
        value |-> auth.credentials.str]

\* C11: every request sent for a payload with auth carries exactly one header
\* derived from auth: Authorization with 'Bearer <credentials>' or
\* 'Basic <credentials>', or the header named headerName (X-API-Key when
\* absent) with the credentials as its value, and no other header beside the
\* ones the relay sets for itself; a request sent for a payload without auth
\* carries only the relay's headers.
C11_OneAuthHeader ==
  \A i \in 1..Len(fetches) :
    IF Falsy(proxyReq.auth)
    THEN DOMAIN fetches[i].headers \subseteq RelayHeaderNames
    ELSE /\ AuthHeader(proxyReq.auth).name \in DOMAIN fetches[i].headers
         /\ DOMAIN fetches[i].headers \ RelayHeaderNames
              \subseteq {AuthHeader(proxyReq.auth).name}
         /\ fetches[i].headers[AuthHeader(proxyReq.auth).name]
              = AuthHeader(proxyReq.auth).value

\* A request was sent with basic auth.
C11_Witness ==
  /\ fetches # <<>>
  /\ ~Falsy(proxyReq.auth)
  /\ proxyReq.auth.authType.str = "basic"
  /\ fetches[1].headers["Authorization"] = "Basic s3cret"

\* The checks of a payload in their order, by the path each reports.
CheckOrder ==
  <<"body", "url", "method", "timeout", "contentType", "accept", "auth", "auth.type",
    "auth.credentials", "auth.headerName">>

\* v is absent or a string.
OptionalString(v) == v.type \in {"undefined", "string"}

\* What each check asks of a payload whose earlier checks passed.
CheckPasses(body, path) ==
  CASE path = "body" -> body.type = "object"
    [] path = "url" ->
         body.url.type = "url" /\ body.url.parses
           /\ body.url.protocol \in {"http:", "https:"}
    [] path = "method" ->
         \/ body.method.type = "undefined"
         \/ body.method.type = "string"
              /\ body.method.str \in {"get", "post", "put", "patch", "delete", "head"}
                                      \cup ALLOWED_METHODS
    [] path = "timeout" ->
         \/ body.timeout.type = "undefined"
         \/ body.timeout.type = "number"
              /\ body.timeout.num > 0 /\ body.timeout.num <= proxyTimeoutMs
    [] path = "contentType" -> OptionalString(body.contentType)
    [] path = "accept" -> OptionalString(body.accept)
    [] path = "auth" -> body.auth.type \in {"undefined", "object"}
    [] path = "auth.type" ->
         \/ body.auth.type = "undefined"
         \/ body.auth.authType \in {JsString("bearer"), JsString("basic"),
                                    JsString("api-key")}
    [] path = "auth.credentials" ->
         \/ body.auth.type = "undefined"
         \/ body.auth.credentials.type = "string" /\ body.auth.credentials.str # ""
    [] path = "auth.headerName" ->
         \/ body.auth.type = "undefined"
         \/ body.auth.authType # JsString("api-key")
         \/ body.auth.headerName.type = "undefined"
         \/ body.auth.headerName.type = "string" /\ body.auth.headerName.str # ""

\* The path of the first check from position i on that fails, "" if none does.
RECURSIVE FirstFailing(_, _)
FirstFailing(body, i) ==
  IF i > Len(CheckOrder) THEN ""
  ELSE IF ~CheckPasses(body, CheckOrder[i]) THEN CheckOrder[i]
  ELSE FirstFailing(body, i + 1)

MsgOrigin == "Request must originate from ZenBin page"

\* Neither header of the request names the base origin: each is missing or
\* names another origin (or, for Referer, is no URL).
NoMatchingOrigin(r) ==
  /\ r.origin # baseUrlOrigin
  /\ r.referer = "" \/ RefererOrigin(r.referer) # baseUrlOrigin

\* The call was answered 403 for its origin before anything else was done:
\* no body parsed, no payload validated, no DNS lookup, no request sent.
RejectedForOrigin ==
  /\ pc = "done"
  /\ reply.status = 403
  /\ reply.error = MsgOrigin
  /\ proxyReq = Payload(NoUrl)
  /\ validations = {}
  /\ fetches = <<>>
  /\ armCount = 0

\* A request with no Origin and a Referer of the base origin passed the
\* origin check.
RefererAlonePasses ==
  (/\ pc # "idle"
   /\ IncludesJson(req.contentType)
   /\ req.origin = ""
   /\ req.referer # ""
   /\ RefererOrigin(req.referer) = baseUrlOrigin)
    => reply.status # 403

\* C13 as stated: every request whose Origin and Referer are missing or do
\* not match is answered 403 with the origin message before anything else.
C13_OriginRejectedAnyContentType ==
  /\ (pc # "idle" /\ NoMatchingOrigin(req)) => RejectedForOrigin
  /\ RefererAlonePasses

\* C13: a request with a JSON Content-Type whose Origin and Referer are
\* missing or do not match the base origin is answered 403 'Request must
\* originate from ZenBin page' before the body is parsed or validated and
\* before any DNS lookup or outbound request; a request with no Origin and a
\* Referer of the base origin is not answered 403.
C13_OriginRejected ==
  /\ (pc # "idle" /\ IncludesJson(req.contentType) /\ NoMatchingOrigin(req))
       => RejectedForOrigin
  /\ RefererAlonePasses

\* A request with a JSON Content-Type and neither Origin nor Referer was
\* answered.
C13_Witness ==
  /\ pc = "done"
  /\ IncludesJson(req.contentType)
  /\ req.origin = ""
  /\ req.referer = ""
  /\ reply.status = 403

\* The window length and the limit of the limiter a request went through.
WindowMs(i) ==
  IF served[i].limiter = "proxyRateLimit" THEN proxyRateLimitWindowMs
  ELSE rateLimitWindowMs

MaxRequests(i) ==
  IF served[i].limiter = "proxyRateLimit" THEN proxyRateLimitMax
  ELSE rateLimitMaxRequests

\* Requests i and j went through the same limiter with the same caller key.
SameCaller(i, j) ==
  served[i].limiter = served[j].limiter /\ served[i].key = served[j].key

\* The last request of i's caller before i, or 0.
Previous(i) ==
  IF \E j \in 1..(i - 1) : SameCaller(i, j)
  THEN CHOOSE j \in 1..(i - 1) :
         SameCaller(i, j) /\ \A k \in (j + 1)..(i - 1) : ~SameCaller(i, k)
  ELSE 0

\* Request i opens a window when it arrives after the end of the window that
\* request o opened; else it belongs to that window.
OpenerAfter(i, o) == IF served[i].at > served[o].at + WindowMs(i) THEN i ELSE o

RECURSIVE WindowOpenedBy(_)

\* The opener of i's window, given the last request p of i's caller before i.
OpenerFrom(i, p) == IF p = 0 THEN i ELSE OpenerAfter(i, WindowOpenedBy(p))

\* The request that opened the window request i falls in.
WindowOpenedBy(i) == OpenerFrom(i, Previous(i))

\* For every request of the history, the request that opened its window.
Openers == [i \in 1..Len(served) |-> WindowOpenedBy(i)]

\* The requests of i's window up to and including i.
WindowUpTo(i, opener) ==
  {j \in 1..i : SameCaller(i, j) /\ opener[j] = opener[i]}

\* The requests passed on to the route handler.
Admitted == {i \in 1..Len(served) : served[i].next}

RejectionHeaders ==
  {"Retry-After", "X-RateLimit-Limit", "X-RateLimit-Remaining", "X-RateLimit-Reset"}

\* C14: within one window of a caller key at most maxRequests requests are
\* passed on to the handler; every further request of the window is answered
\* 429 with Retry-After and the X-RateLimit-* headers, and the handler is not
\* invoked for it.
C14_WindowLimit ==
  /\ LET opener == Openers
     IN  \A i \in 1..Len(served) :
           /\ Cardinality(WindowUpTo(i, opener) \cap Admitted) <= MaxRequests(i)
           /\ Cardinality(WindowUpTo(i, opener)) > MaxRequests(i)
                => /\ served[i].status = 429
                   /\ ~served[i].next
                   /\ RejectionHeaders \subseteq DOMAIN served[i].headers
  /\ running <= Cardinality(Admitted)

\* A request was rejected as the first one above the limit of its window.
C14_Witness ==
  \E i \in 1..Len(served) :
    /\ served[i].status = 429
    /\ Cardinality(WindowUpTo(i, Openers)) = MaxRequests(i) + 1
    /\ Cardinality(WindowUpTo(i, Openers) \cap Admitted) = MaxRequests(i)

\* The Map of the limiter request i went through.
StoreOf(i) ==
  IF served[i].limiter = "proxyRateLimit" THEN proxyRateLimitStore ELSE rateLimitStore

\* Request i is the latest of its caller.
Latest(i) == \A j \in (i + 1)..Len(served) : ~SameCaller(i, j)

Min(a, b) == IF a < b THEN a ELSE b

\* C15: once N requests of one caller key have passed the limiter in one
\* window, whatever handlers are still running, the stored count is N and
\* exactly min(N, maxRequests) of them were admitted: no increment is lost.
C15_NoLostIncrement ==
  LET opener == Openers
  IN  \A i \in 1..Len(served) :
        (Latest(i) /\ served[i].key \in DOMAIN StoreOf(i))
          => /\ StoreOf(i)[served[i].key].count = Cardinality(WindowUpTo(i, opener))
             /\ Cardinality(WindowUpTo(i, opener) \cap Admitted)
                  = Min(Cardinality(WindowUpTo(i, opener)), MaxRequests(i))

\* Three requests of one caller arrived at the same instant, and the handlers
\* of the two admitted ones are still running.
C15_Witness ==
  /\ Len(served) = 3
  /\ \A i \in 1..3 : SameCaller(1, i) /\ served[i].at = served[1].at
  /\ served[1].limiter = "rateLimit"
  /\ running = 2
  /\ rateLimitStore[served[1].key].count = 3

\* The Map a limiter would hold after the first n requests of the history
\* had no sweep ever run.
RECURSIVE UnsweptStore(_, _)
UnsweptStore(limiter, n) ==
  IF n = 0 THEN <<>>
  ELSE IF served[n].limiter # limiter THEN UnsweptStore(limiter, n - 1)
  ELSE Touch(UnsweptStore(limiter, n - 1), served[n].key, served[n].at, WindowMs(n))

\* What the limiter would have decided for request i had no sweep ever run.
UnsweptDecision(i) ==
  Decide(UnsweptStore(served[i].limiter, i)[served[i].key], served[i].at,
         MaxRequests(i))

\* Every entry a step removes from a Map had resetAt < now.
OnlyExpiredDeleted(store, storeAfter) ==
  \A k \in DOMAIN store \ DOMAIN storeAfter : store[k].resetAt < now

\* C16: a sweep deletes an entry only if its window has already elapsed
\* (resetAt < now), and however sweeps interleave with requests, every request
\* is admitted or rejected, with the same headers, as it would be had no
\* sweep ever run.
C16_SweepInvisible ==
  /\ [][/\ OnlyExpiredDeleted(proxyRateLimitStore, proxyRateLimitStore')
        /\ OnlyExpiredDeleted(rateLimitStore, rateLimitStore')]_vars
  /\ [](\A i \in 1..Len(served) :
          /\ served[i].next = UnsweptDecision(i).next
          /\ served[i].status = UnsweptDecision(i).status
          /\ served[i].headers = UnsweptDecision(i).headers)

\* A sweep has deleted the entry of a caller, and a request of another caller
\* that arrived after that caller's window had ended was served by the same
\* limiter.
C16_Witness ==
  \E i, j \in 1..Len(served) :
    /\ i < j
    /\ served[i].limiter = served[j].limiter
    /\ served[i].key # served[j].key
    /\ served[i].key \notin DOMAIN StoreOf(i)
    /\ served[j].at > served[i].at + WindowMs(i)
    /\ served[j].next

\* A decimal numeral of an octet: one to three digits, no leading zero,
\* at most 255.
OctetNumeral(part) ==
  /\ Len(part) \in 1..3
  /\ AllDigits(part)
  /\ Len(part) > 1 => part[1] # "0"
  /\ DecimalValue(part) <= 255

\* Four octet numerals.
WellFormedQuad(parts) ==
  Len(parts) = 4 /\ \A i \in 1..4 : OctetNumeral(parts[i])

\* "private" for a dotted quad in a reserved range, else "public".
RangeVerdict(parts) ==
  IF InPrivateRange(DecimalValue(parts[1]), DecimalValue(parts[2]))
  THEN "private" ELSE "public"

\* C17: isPrivateIP returns true for every well-formed dotted quad in
\* 127.0.0.0/8, 10.0.0.0/8, 172.16.0.0-172.31.255.255, 192.168.0.0/16,
\* 169.254.0.0/16 and 0.0.0.0/8, and false for every well-formed dotted quad
\* outside those ranges.
C17_DottedQuadRanges ==
  (verdict # "pending" /\ WellFormedQuad(Split(address, <<".">>)))
    => verdict = RangeVerdict(Split(address, <<".">>))

\* 172.32.0.1, just above 172.16.0.0/12, was classified as not private.
C17_Witness ==
  /\ address = <<"1", "7", "2", ".", "3", "2", ".", "0", ".", "1">>
  /\ verdict = "public"

\* C18: isPrivateIP returns true for ::1, for every address in fc00::/7 and
\* in fe80::/10, and for an IPv4-mapped address, written dotted or in
\* hexadecimal, compressed or fully expanded, exactly when the embedded IPv4
\* address is private under the IPv4 rules.
C18_IPv6Ranges ==
  verdict # "pending"
    => /\ address \in LoopbackTexts \cup ReservedTexts => verdict = "private"
       /\ \A c \in MappedCases :
            address = c.text => verdict = (IF c.private THEN "private" ELSE "public")

\* 8.0.0.1 in the compressed hexadecimal mapped form was classified as not
\* private.
C18_Witness ==
  /\ address = <<":", ":", "f", "f", "f", "f", ":", "8", "0", "0", ":", "1">>
  /\ verdict = "public"

\* C19: isPrivateIP is total and fails closed: for every string that is no
\* well-formed IPv4 or IPv6 address it returns true, and it never throws.
C19_FailClosed ==
  /\ verdict \in {"pending", "private", "public"}
  /\ address \in MalformedInputs => verdict \in {"pending", "private"}

\* The hostnames of the static blocklist.
BlockedHosts == {Localhost, MetadataGoogleInternal, MetadataGoog}

\* A URL with http or https and a blocked hostname.
HostBlocked(url) ==
  /\ url.parses
  /\ url.protocol \in {"http:", "https:"}
  /\ url.hostname \in BlockedHosts

\* C20: resolveAndValidate rejects a URL whose hostname is in the static
\* blocklist (localhost, metadata.google.internal, metadata.goog) with
\* 'Hostname is blocked', and no DNS lookup is ever pending or answered for
\* such a URL.
C20_BlockedHostNoLookup ==
  /\ pc \in {"dns4", "dns6"} => ~HostBlocked(validating)
  /\ \A v \in validations :
       HostBlocked(v.url)
         => /\ ~v.ok
            /\ v.ip = <<>>
            /\ pc = "done"
            /\ reply.status = 400
            /\ reply.error = (IF v.stage = "initial" THEN "Hostname is blocked"
                              ELSE "Redirect blocked: Hostname is blocked")

\* A redirect to metadata.google.internal was rejected.
C20_Witness ==
  /\ pc = "done"
  /\ \E v \in validations :
       v.url.hostname = MetadataGoogleInternal /\ v.stage = "redirect" /\ ~v.ok
  /\ reply.error = "Redirect blocked: Hostname is blocked"

\* The hostnames of the model that are no address literals.
DnsNames == {HostA, HostB, HostSub, HostLookalike}

\* A DNS query that rejected or returned no address.
NoAddress(lookup) == lookup.answer.rejected \/ lookup.answer.addresses = <<>>

\* The last DNS query answered.
LastLookup(ls) == ls[Len(ls)]

\* The queries of one resolveAndValidate call: an A query, followed by an
\* AAAA query only if the A query gave no address, for one hostname that is
\* no literal.
LookupOrder(ls) ==
  /\ Len(ls) <= 2
  /\ \A i \in 1..Len(ls) : ls[i].hostname = validating.hostname
  /\ ls # <<>> => ls[1].record = "A" /\ validating.hostname \in DnsNames
  /\ Len(ls) = 2 => ls[2].record = "AAAA" /\ NoAddress(ls[1])

\* The outcome v of a validation that ended with the queries ls: it
\* succeeded only with the first address of the last answer, and only if that
\* address is public.
OutcomeOfLookups(v, ls) ==
  /\ ls # <<>>
  /\ v.ok <=> /\ ~NoAddress(LastLookup(ls))
              /\ LastLookup(ls).answer.addresses[1] \in PublicAddresses
  /\ ~NoAddress(LastLookup(ls)) => v.ip = LastLookup(ls).answer.addresses[1]
  /\ NoAddress(LastLookup(ls)) => Len(ls) = 2 /\ v.ip = <<>>

\* C21: for a hostname that is no literal, resolveAndValidate queries A
\* records, queries AAAA records only if the A query failed or returned
\* nothing, classifies the first address returned and succeeds only if it is
\* not private; if both queries fail it rejects with 'DNS resolution failed'
\* without another query, and the relay issues no fetch.
C21_DnsFailClosed ==
  /\ [][\A v \in validations' \ validations :
          (v.url.parses /\ v.url.hostname \in DnsNames
             /\ v.url.protocol \in {"http:", "https:"})
            => /\ pc \in {"dns4", "dns6"}
               /\ v.url = validating
               /\ OutcomeOfLookups(v, lookups')
               /\ NoAddress(LastLookup(lookups'))
                    => /\ pc' = "done"
                       /\ reply'.status = 400
                       /\ reply'.error = (IF v.stage = "initial" THEN MsgDnsFailed
                                          ELSE "Redirect blocked: " \o MsgDnsFailed)
                       /\ fetches' = fetches]_vars
  /\ [](/\ LookupOrder(lookups)
        /\ pc = "dns4" => lookups = <<>>
        /\ pc = "dns6" <=> Len(lookups) = 1 /\ NoAddress(lookups[1])
        /\ \A v \in validations : v.ok => v.ip \in PublicAddresses)

\* Both queries for the request's hostname failed, the A query with an empty
\* answer, and the call ended without a fetch.
C21_Witness ==
  /\ pc = "done"
  /\ Len(lookups) = 2
  /\ lookups[1].answer = DnsAddresses(<<>>)
  /\ lookups[2].answer = DnsError
  /\ reply.error = MsgDnsFailed
  /\ fetches = <<>>

\* The spellings of the Set-Cookie header name that upstream responses of the
\* model use.
SetCookieNames == {"Set-Cookie", "set-cookie", "SET-COOKIE"}

\* The values an upstream response sets cookies with.
SetCookieValues(r) == {r.headers[k] : k \in DOMAIN r.headers \cap SetCookieNames}

\* C22: the headers map of a 200 reply holds every header of the final
\* upstream response, with its value, except Set-Cookie in any letter case;
\* no Set-Cookie value of the upstream response is among the values returned.
C22_SetCookieStripped ==
  reply.status = 200
    => /\ DOMAIN reply.proxyResponse.headers = DOMAIN response.headers \ SetCookieNames
       /\ \A k \in DOMAIN reply.proxyResponse.headers :
            /\ reply.proxyResponse.headers[k] = response.headers[k]
            /\ reply.proxyResponse.headers[k] \notin SetCookieValues(response)

\* A 200 reply for an upstream response that set a cookie under the name
\* SET-COOKIE: the reply keeps its two other headers.
C22_Witness ==
  /\ reply.status = 200
  /\ "SET-COOKIE" \in DOMAIN response.headers
  /\ DOMAIN reply.proxyResponse.headers = {"content-type", "etag"}

\* The upstream response declares a JSON body.
UpstreamSaysJson(r) ==
  \E k \in DOMAIN r.headers \cap {"Content-Type", "content-type"} :
    r.headers[k] \in {"application/json", "application/json; charset=utf-8"}

\* The texts of the model that are JSON documents: numerals of 7s.
JsonTexts == {<<"7">>, <<"7", "7">>, <<"7", "7", "7">>}

\* C23: when the stream of a final response that declares application/json
\* reports done and the text of the body is not a JSON document, the call
\* replies 200 in that step, with the raw text as body; and every 200 reply
\* for such a response carries the raw text.
C23_MalformedJsonStillOk ==
  /\ [][(/\ ReadDone
         /\ UpstreamSaysJson(response)
         /\ WholeText(response.body) \notin JsonTexts)
          => /\ pc' = "done"
             /\ reply'.status = 200
             /\ reply'.error = ""
             /\ reply'.proxyResponse.status = response.status
             /\ reply'.proxyResponse.body = Text(WholeText(response.body))]_vars
  /\ [](reply.status = 200 /\ UpstreamSaysJson(response)
           => reply.proxyResponse.body
                = IF WholeText(response.body) \in JsonTexts
                  THEN JsNumber(DecimalValue(WholeText(response.body)))
                  ELSE Text(WholeText(response.body)))

\* A 200 reply for a response that declared JSON and whose body is the text
\* AA: the reply body is that text.
C23_Witness ==
  /\ reply.status = 200
  /\ UpstreamSaysJson(response)
  /\ response.body = <<<<ByteA, ByteA>>>>
  /\ reply.proxyResponse.body = Text(<<"A", "A">>)

\* The handlers that passed the check for a taken ID and saved a page for id.
Savers(ps, id) == {i \in 1..Len(ps) : ps[i].id = id /\ ps[i].pc \in {"put", "done"}
                                       /\ ps[i].status \in {0, 201}}

\* The handler leaves `await c.req.json()` in this step.
ChecksNow(i) == i \in 1..Len(posts) /\ posts[i].pc = "json" /\ posts'[i].pc # "json"

ValidPost(p) ==
  /\ validateId(p.id) = ""
  /\ p.body # InvalidJson
  /\ validatePageBody(p.body) = ""

\* The content a valid POST asks to store.
Content(p) ==
  IF p.body.encoding = JsString("base64")
  THEN Base64Decode(p.body.html.chars)
  ELSE p.body.html.chars

EntityTags == {generateEtag(<<"a">>), generateEtag(<<"b">>), generateEtag(<<>>)}

\* The If-None-Match headers that list the tag: the wildcard, the tag, and the
\* lists of two tags with it.
Listing(tag) ==
  {<<"*">>, tag}
  \cup {other \o <<",", " ">> \o tag : other \in EntityTags}
  \cup {tag \o <<",", " ">> \o other : other \in EntityTags}

\* C26: a GET /p/{id} or /p/{id}/raw for an id that holds a page is answered
\* 304 without a body when its If-None-Match lists the page's ETag or '*', and
\* otherwise 200 with the stored HTML and the page's ETag; that ETag is the
\* one of the stored content, which the POST that created the page returned.
C26_ConditionalGet ==
  [][(lastGet' # lastGet /\ lastGet'.id \in DOMAIN db)
       => /\ lastGet'.route \in {"view", "raw"}
          /\ \E i \in Savers(posts, lastGet'.id) :
               /\ posts[i].page = db[lastGet'.id]
               /\ posts[i].page.etag = generateEtag(Content(posts[i]))
               /\ posts[i].status = 201 => posts[i].etag = db[lastGet'.id].etag
          /\ IF lastGet'.ifNoneMatch \in Listing(db[lastGet'.id].etag)
             THEN /\ lastGet'.status = 304
                  /\ ~lastGet'.hasBody
                  /\ lastGet'.body = <<>>
             ELSE /\ lastGet'.status = 200
                  /\ lastGet'.hasBody
                  /\ lastGet'.body = db[lastGet'.id].html
                  /\ lastGet'.etag = db[lastGet'.id].etag]_vars

\* The page of id a was created with the ETag of the content a, and a GET of
\* its raw HTML whose If-None-Match lists that tag second was answered 304.
C26_Witness ==
  /\ lastGet.status = 304
  /\ lastGet.route = "raw"
  /\ lastGet.id = IdA
  /\ lastGet.ifNoneMatch = generateEtag(<<"b">>) \o <<",", " ">> \o generateEtag(<<"a">>)
  /\ \E i \in 1..Len(posts) :
       posts[i].id = IdA /\ posts[i].status = 201 /\ posts[i].etag = generateEtag(<<"a">>)

\* The caller's method in upper case, GET when the payload names none.
CallerMethod ==
  CASE proxyReq.method = JsUndefined -> "GET"
    [] proxyReq.method = JsString("get") -> "GET"
    [] proxyReq.method = JsString("post") -> "POST"
    [] proxyReq.method = JsString("Put") -> "PUT"
    [] OTHER -> "none"

\* C27: the first outbound request of a call has the caller's method, and a
\* body exactly when the payload has one and the method is neither GET nor
\* HEAD; every later request, whatever the status of the redirect it follows,
\* is a GET without a body.
C27_RedirectsAreGet ==
  \A k \in 1..Len(fetches) :
    IF k = 1
    THEN /\ fetches[k].method = CallerMethod
         /\ fetches[k].hasBody
              <=> (proxyReq.body # JsUndefined /\ CallerMethod \notin {"GET", "HEAD"})
    ELSE /\ fetches[k].method = "GET"
         /\ ~fetches[k].hasBody

\* A POST with a body was answered 307 and the redirect was followed with a
\* GET without a body.
C27_Witness ==
  /\ Len(fetches) >= 2
  /\ fetches[1].method = "POST" /\ fetches[1].hasBody
  /\ response.status = 307
  /\ fetches[2].method = "GET" /\ ~fetches[2].hasBody

\* C28: a step sends at most one request; a request after the first is sent
\* only in a step in which the call is waiting for the response of the previous
\* request or for the DNS answer about its redirect target, with that response
\* a redirect whose target resolveAndValidate has accepted; a request that
\* fails ends the call with 502 or 504 and nothing is sent afterwards; a call
\* sends at most proxyMaxRedirects + 1 requests.
C28_SequentialFetches ==
  /\ [][fetches' # fetches
          => /\ Len(fetches') = Len(fetches) + 1
             /\ SubSeq(fetches', 1, Len(fetches)) = fetches
             /\ pc' = "fetch"
             /\ Len(fetches) > 0
                  => /\ pc \in {"fetch", "dns4", "dns6"}
                     /\ pc \in {"dns4", "dns6"} => stage = "redirect"
                     /\ response'.status \in {301, 302, 303, 307, 308}
                     /\ response'.location.kind # "none"
                     /\ \E v \in validations' :
                          /\ v.stage = "redirect" /\ v.ok
                          /\ v.url = fetches'[Len(fetches')].url]_vars
  /\ [][(FetchFails \/ FetchAborted)
          => /\ pc' = "done"
             /\ reply'.status \in {502, 504}
             /\ fetches' = fetches]_vars
  /\ [][pc = "done" => (pc' = "done" /\ fetches' = fetches /\ reply' = reply)]_vars
  /\ [](Len(fetches) <= proxyMaxRedirects + 1)

\* A call followed proxyMaxRedirects redirects, its last request failed, and it
\* was answered 502 after proxyMaxRedirects + 1 requests.
C28_Witness ==
  /\ pc = "done"
  /\ Len(fetches) = proxyMaxRedirects + 1
  /\ reply.status = 502
  /\ reply.error = "fetch failed"

\* The checks of a relay request, in the order of the handler: the first that
\* fails for the request, 7 when all six pass and SSRF validation decides.
JsonContentTypes == {"application/json", "application/json; charset=utf-8"}

OriginCheckFails(r) ==
  \/ r.origin # "" /\ r.origin # baseUrlOrigin
  \/ r.origin = "" /\ (r.referer = "" \/ RefererOrigin(r.referer) # baseUrlOrigin)

FirstFailingStep(r, domains) ==
  CASE r.contentType \notin JsonContentTypes -> 1
    [] OTHER ->
  CASE OriginCheckFails(r) -> 2
    [] OTHER ->
  CASE r.contentLength # <<>> /\ DecimalValue(r.contentLength) > proxyMaxRequestSize -> 3
    [] OTHER ->
  CASE r.json = InvalidJson -> 4
    [] OTHER ->
  CASE validateProxyRequest(r.json, proxyTimeoutMs) # NoValidationError -> 5
    [] OTHER ->
  CASE Len(domains) > 0 /\ ~isAllowed(r.json.url.hostname, domains) -> 6
    [] OTHER -> 7

\* The status and the message of the reply for a failed check.
CheckStatus == <<403, 403, 413, 400, 400, 400>>

CheckMessage(check, r) ==
  CASE check = 1 -> "Content-Type must be application/json"
    [] check = 2 -> "Request must originate from ZenBin page"
    [] check = 3 -> "Request body too large"
    [] check = 4 -> "Invalid JSON in request body"
    [] check = 5 -> validateProxyRequest(r.json, proxyTimeoutMs).field \o ": "
                      \o validateProxyRequest(r.json, proxyTimeoutMs).message
    [] check = 6 -> "Target domain is not in the allowlist"

\* C29: a request for which one of the checks Content-Type, origin,
\* Content-Length, JSON, payload, allowlist fails is answered with the status
\* and message of the first of them that fails, in the step in which that
\* check runs, with no SSRF validation, no DNS query and no outbound request;
\* when all six pass and resolveAndValidate rejects the initial URL the reply
\* is 400 with its message and nothing was sent.
C29_FirstFailingStep ==
  /\ (pc # "idle" /\ FirstFailingStep(req, proxyAllowedDomains) <= 3)
       => /\ pc = "done"
          /\ reply.status = CheckStatus[FirstFailingStep(req, proxyAllowedDomains)]
          /\ reply.error = CheckMessage(FirstFailingStep(req, proxyAllowedDomains), req)
          /\ proxyReq = Payload(NoUrl)
          /\ validations = {} /\ lookups = <<>> /\ fetches = <<>>
  /\ (pc \notin {"idle", "json"} /\ FirstFailingStep(req, proxyAllowedDomains) \in 4..6)
       => /\ pc = "done"
          /\ reply.status = CheckStatus[FirstFailingStep(req, proxyAllowedDomains)]
          /\ reply.error = CheckMessage(FirstFailingStep(req, proxyAllowedDomains), req)
          /\ validations = {} /\ lookups = <<>> /\ fetches = <<>>
  /\ (pc = "json") => FirstFailingStep(req, proxyAllowedDomains) >= 4
  /\ (\E v \in validations : v.stage = "initial" /\ ~v.ok)
       => /\ FirstFailingStep(req, proxyAllowedDomains) = 7
          /\ pc = "done"
          /\ reply.status = 400
          /\ reply.error \in ResolveMessages
          /\ fetches = <<>>
  /\ validations # {} => FirstFailingStep(req, proxyAllowedDomains) = 7

\* A request with a foreign Origin, a Content-Length above the cap and a body
\* that is not JSON was answered 403 for its origin.
C29_Witness ==
  /\ pc = "done"
  /\ req.contentType = "application/json"
  /\ req.origin = "http://evil.example"
  /\ req.contentLength # <<>> /\ DecimalValue(req.contentLength) > proxyMaxRequestSize
  /\ req.json = InvalidJson
  /\ reply.status = 403
  /\ reply.error = "Request must originate from ZenBin page"

\* The statuses of the replies of the relay.
ReplyStatuses == {200, 400, 403, 413, 502, 504}

RelaySets(p) ==
  {"User-Agent"}
  \cup (IF ~Falsy(p.contentType) \/ p.body.type # "undefined" THEN {"Content-Type"}
        ELSE {})
  \cup (IF ~Falsy(p.accept) THEN {"Accept"} ELSE {})

\* The value step 7 gives to such a header.
RelayValue(p, name) ==
  CASE name = "User-Agent" -> "ZenBin-Proxy/1.0"
    [] name = "Content-Type" -> IF ~Falsy(p.contentType) THEN p.contentType.str
                                ELSE "application/json"
    [] name = "Accept" -> p.accept.str

\* C31: every request sent carries User-Agent 'ZenBin-Proxy/1.0', and every
\* header the relay set itself (User-Agent, Content-Type, Accept) still has
\* the relay's value: the header derived from auth has not replaced it.
C31_RelayHeadersKept ==
  \A i \in 1..Len(fetches) :
    \A name \in RelaySets(proxyReq) :
      /\ name \in DOMAIN fetches[i].headers
      /\ fetches[i].headers[name] = RelayValue(proxyReq, name)

(***************************************************************************)
(* The domain allowlist                                                   *)
(***************************************************************************)

\* hostname is domain, or ends with a dot followed by domain, letters
\* compared without regard to case.
DomainCovers(domain, hostname) ==
  LET h == ToLowerCase(hostname)
      d == ToLowerCase(domain)
      k == Len(h) - Len(d)
  IN  \/ h = d
      \/ /\ k >= 1
         /\ h[k] = "."
         /\ \A j \in 1..Len(d) : h[k + j] = d[j]

\* hostname passes the allowlist domains.
OnAllowlist(hostname, domains) ==
  domains = <<>> \/ \E i \in 1..Len(domains) : DomainCovers(domains[i], hostname)

MsgNotAllowed == "Target domain is not in the allowlist"

MsgRedirectNotAllowed == "Redirect target domain is not in the allowlist"

\* C32: a hostname passes iff the allowlist is empty or the hostname equals,
\* without regard to case, an allowlisted domain or ends with '.' followed by
\* it. A valid request is answered 400 'Target domain is not in the
\* allowlist', before any lookup, exactly when its URL's hostname does not
\* pass; a redirect target that resolveAndValidate accepted is answered 400
\* 'Redirect target domain is not in the allowlist', without a fetch, exactly
\* when its hostname does not pass; every URL fetched has a hostname that
\* passes.
C32_AllowlistPredicate ==
  /\ []((/\ pc \notin {"idle", "json"}
         /\ req.json # InvalidJson
         /\ validateProxyRequest(req.json, proxyTimeoutMs) = NoValidationError)
          => ((/\ pc = "done"
               /\ reply.status = 400
               /\ reply.error = MsgNotAllowed
               /\ validations = {})
                <=> ~OnAllowlist(req.json.url.hostname, proxyAllowedDomains)))
  /\ [](\A i \in 1..Len(fetches) :
          OnAllowlist(fetches[i].url.hostname, proxyAllowedDomains))
  /\ [][\A v \in validations' \ validations :
          (v.stage = "redirect" /\ v.ok)
            => IF OnAllowlist(v.url.hostname, proxyAllowedDomains)
               THEN reply'.error # MsgRedirectNotAllowed
               ELSE /\ pc' = "done"
                    /\ reply'.status = 400
                    /\ reply'.error = MsgRedirectNotAllowed
                    /\ fetches' = fetches]_vars

\* Under the list in capitals the call to the domain itself was fetched and
\* redirected to the subdomain, which was fetched, and the redirect from
\* there to the name that only ends with the domain's letters was refused.
C32_Witness ==
  /\ proxyAllowedDomains = <<HostB, HostAUpper>>
  /\ pc = "done"
  /\ Len(fetches) = 2
  /\ fetches[1].url = UrlA
  /\ fetches[2].url = UrlSub
  /\ response.location = Absolute(UrlLookalike)
  /\ reply.status = 400
  /\ reply.error = MsgRedirectNotAllowed

(***************************************************************************)
(* The windows of the limiters                                            *)
(***************************************************************************)

\* The entry a request arriving at t opens a window with.
NewWindow(t, windowMs) == [count |-> 1, resetAt |-> t + windowMs]

\* The record of the request a step has served.
LastServed == served'[Len(served')]

\* A step of the limiter whose Map goes from store to storeAfter: resetAt of
\* an entry changes only by a request of its caller that arrives after
\* resetAt; a request that finds its caller's window open counts in it and
\* leaves resetAt alone; a request that finds it ended, or no entry, is
\* admitted and opens a window with count 1.
WindowFixed(limiter, store, storeAfter, windowMs) ==
  /\ \A k \in DOMAIN store \cap DOMAIN storeAfter :
       storeAfter[k].resetAt # store[k].resetAt
         => /\ store[k].resetAt < now
            /\ Len(served') = Len(served) + 1
            /\ LastServed.limiter = limiter
            /\ LastServed.key = k
  /\ (Len(served') = Len(served) + 1 /\ LastServed.limiter = limiter)
       => IF LastServed.key \in DOMAIN store /\ store[LastServed.key].resetAt >= now
          THEN storeAfter[LastServed.key]
                 = [count |-> store[LastServed.key].count + 1,
                    resetAt |-> store[LastServed.key].resetAt]
          ELSE /\ storeAfter[LastServed.key] = NewWindow(now, windowMs)
               /\ LastServed.next
               /\ LastServed.status # 429

\* C33: a caller's window is fixed by the request that opened it: no later
\* request in the window, admitted or rejected, changes resetAt; the first
\* request of the caller at a time strictly after resetAt is admitted and
\* opens a new window with count 1.
C33_WindowFixedByOpener ==
  [][/\ WindowFixed("proxyRateLimit", proxyRateLimitStore, proxyRateLimitStore',
                    proxyRateLimitWindowMs)
     /\ WindowFixed("rateLimit", rateLimitStore, rateLimitStore',
                    rateLimitWindowMs)]_vars

\* A caller of the relay route was rejected in the window its first request
\* opened, at the very end of that window, and its next request, after the
\* end, was admitted and opened a window with count 1.
C33_Witness ==
  /\ Len(served) = 3
  /\ \A i \in 1..3 : SameCaller(1, i) /\ served[i].limiter = "proxyRateLimit"
  /\ served[1].next
  /\ served[2].status = 429
  /\ served[2].at = served[1].at + proxyRateLimitWindowMs
  /\ served[3].at > served[1].at + proxyRateLimitWindowMs
  /\ served[3].next
  /\ proxyRateLimitStore[served[3].key]
       = NewWindow(served[3].at, proxyRateLimitWindowMs)

\* The seconds a 429 reply advertises in Retry-After.
RetryAfter(i) == DecimalValue(served[i].headers["Retry-After"])

\* C34: a caller rejected with 429 whose next request arrives exactly
\* Retry-After seconds after the rejected one is admitted.
C34_RetryAfterSufficient ==
  \A j \in 1..Len(served) :
    LET i == Previous(j)
    IN  (/\ i # 0
         /\ served[i].status = 429
         /\ served[j].at = served[i].at + 1000 * RetryAfter(i))
          => served[j].next

(***************************************************************************)
(* The delay of the deadline                                              *)
(***************************************************************************)

\* C35: the deadline of a call is armed with the caller's timeout if the
\* payload gives one and with config.proxyTimeoutMs otherwise, and the delay
\* is positive and not above config.proxyTimeoutMs.
C35_DeadlineDelay ==
  armCount > 0
    => /\ timeout = (IF proxyReq.timeout.type = "undefined" THEN proxyTimeoutMs
                     ELSE proxyReq.timeout.num)
       /\ timeout > 0
       /\ timeout <= proxyTimeoutMs

\* The deadline of a call that asked for 5000 ms is armed with 5000 ms.
C35_Witness ==
  /\ timer = "armed"
  /\ proxyReq.timeout = JsNumber(5000)
  /\ timeout = 5000
  /\ Len(fetches) = 1

(***************************************************************************)
(* Responses the redirect loop ends with                                  *)
(***************************************************************************)

\* The statuses the relay follows.
FollowedStatuses == {301, 302, 303, 307, 308}

\* resp is a response that arrived and is not to be followed: its status is
\* none of the followed ones, or it has no Location header.
NotToFollow(resp) ==
  /\ resp # NoResponse
  /\ resp.status \notin FollowedStatuses \/ resp.location.kind = "none"

\* C36: a response with status 301, 302, 303, 307 or 308 and no Location
\* header, and a response with any other status whether or not it has a
\* Location header, ends the loop: nothing is validated or fetched after it,
\* and unless reading its body fails the call is answered 200 with a relay
\* reply that carries the upstream status.
C36_LoopEnds ==
  /\ [][NotToFollow(response)
          => /\ fetches' = fetches
             /\ validations' = validations
             /\ response' = response]_vars
  /\ [](NotToFollow(response)
          => /\ pc \in {"read", "done"}
             /\ (pc = "done" /\ ~response.hasBody /\ response.contentLength = <<>>)
                  => /\ reply.status = 200
                     /\ reply.proxyResponse.status = response.status)
  /\ []((pc = "done" /\ reply.status = 200)
          => /\ NotToFollow(response)
             /\ reply.proxyResponse.status = response.status)

\* After one redirect the upstream answered 308 without Location, and the
\* caller got a 200 reply that carries the 308.
C36_Witness ==
  /\ pc = "done"
  /\ Len(fetches) = 2
  /\ response.status = 308
  /\ response.location = NoLocation
  /\ reply.status = 200
  /\ reply.proxyResponse.status = 308

(***************************************************************************)
(* Origin before Referer                                                  *)
(***************************************************************************)

\* C37: when the request has an Origin header it alone decides the origin
\* check: the request is answered 403 exactly when Origin differs from the
\* base origin, whatever Referer says; Referer decides only when Origin is
\* absent.
C37_OriginAloneDecides ==
  (pc # "idle" /\ IncludesJson(req.contentType))
    => ((pc = "done" /\ reply.status = 403 /\ reply.error = MsgOrigin)
          <=> IF req.origin # "" THEN req.origin # baseUrlOrigin
              ELSE RefererOrigin(req.referer) # baseUrlOrigin)

\* A request with a foreign Origin and a Referer of the base origin was
\* answered 403.
C37_Witness ==
  /\ pc = "done"
  /\ req.origin = "http://evil.example"
  /\ req.referer = "http://localhost:3000/p/demo"
  /\ IncludesJson(req.contentType)
  /\ reply.status = 403
  /\ reply.error = MsgOrigin

(***************************************************************************)
(* The deadline timer at the end of a call                                *)
(***************************************************************************)

\* C38: whenever the handler has replied, the deadline timer is not armed:
\* if it was armed for the call it has been cleared or has fired before the
\* reply; and only an armed timer aborts, so no abort fires for a call that
\* has completed.
C38_TimerCleared ==
  /\ [](pc = "done" => /\ timer # "armed"
                       /\ armCount > 0 => timer \in {"cleared", "fired"})
  /\ [][(aborted' # aborted) => (timer = "armed" /\ pc # "done")]_vars

\* A call whose second fetch failed was answered 502 with its timer cleared.
C38_Witness ==
  /\ pc = "done"
  /\ Len(fetches) = 2
  /\ reply.status = 502
  /\ reply.error = "fetch failed"
  /\ armCount = 1
  /\ timer = "cleared"

(***************************************************************************)
(* Two POSTs for one unused id                                            *)
(***************************************************************************)

\* C39: of two valid POSTs for the same id, whose handlers may interleave at
\* their awaits, at most one replies 201; once both have replied the other
\* one replied 409, and the page stored is the page of the one that replied
\* 201.
C39_OneCreator ==
  \A i, j \in 1..Len(posts) :
    (/\ i # j
     /\ posts[i].id = posts[j].id
     /\ ValidPost(posts[i])
     /\ ValidPost(posts[j])
     /\ posts[i].status = 201)
      => /\ posts[j].status # 201
         /\ posts[j].pc = "done" => posts[j].status = 409
         /\ db[posts[i].id] = posts[i].page

====
